---------------------------- MODULE Spec2Model ----------------------------
(***************************************************************************)
(* The e-commerce REST backend: the credential store, the catalog store,   *)
(* the order ledger, the auth gate, and the handlers of the user, seller,  *)
(* admin and product routes.                                               *)
(*                                                                         *)
(* Every handler is an async function: each `await` of a storage call is a *)
(* point at which other requests run.  One action of the model is one      *)
(* storage operation together with the synchronous code that runs on its   *)
(* result, up to the next await or the response.                           *)
(***************************************************************************)
EXTENDS Integers, Sequences, FiniteSets, TLC

VARIABLES
    users,      \* credential store: account id -> [role, email, password]
    products,   \* catalog store: product id -> [name, price, quantity]
    orders,     \* order ledger: order id -> [userId, products, totalAmount, status]
    reqs,       \* the requests in flight: slot -> the handler's local state and its response
    served,     \* number of requests received so far
    hist        \* history, read by the properties only (see History)

vars == <<users, products, orders, reqs, served, hist>>

---------------------------------------------------------------------------
(* Bounds *)

MaxReqs == 3        \* requests received in one behaviour
MaxInFlight == 2    \* requests that may overlap
MaxStock == 2       \* largest quantity-on-hand a product is created with
MaxLines == 2       \* longest cart

ReqIds == 1..MaxInFlight

(* Identifiers.  "pX" is a well-formed product id that was never created.   *)
(* Order ids are 1, 2, ... in the order of creation, so an id above the     *)
(* number of orders is a well-formed id of no order.                        *)
ProductIds == {"p1", "p2"}
AnyProductId == ProductIds \cup {"pX"}
UserIds == {"u1", "u2", "a1", "s1"}
NoToken == "none"
Tokens == UserIds \cup {NoToken}
BuyerTokens == {"u1", "u2", NoToken}
StaffTokens == {"a1", "s1", "u1", NoToken}

Statuses == {"pending", "confirmed", "shipped", "delivered", "cancelled"}

---------------------------------------------------------------------------
(* Pure helpers *)

RECURSIVE SumAmount(_)
\* sum over the line items of price x quantity
SumAmount(lines) ==
    IF lines = <<>> THEN 0
    ELSE SumAmount(Tail(lines)) + Head(lines).price * Head(lines).quantity

RECURSIVE Requested(_, _, _)
\* quantity the first k lines of a cart request of product p
Requested(cart, p, k) ==
    IF k = 0 THEN 0
    ELSE Requested(cart, p, k - 1)
         + (IF cart[k].productId = p THEN cart[k].quantity ELSE 0)

\* quantity the whole line sequence names of product p
RequestedAll(lines, p) == Requested(lines, p, Len(lines))

\* SeqsUpTo(S, n): the sequences over S of length 0..n
SeqsUpTo(S, n) == UNION {[1..k -> S] : k \in 0..n}

---------------------------------------------------------------------------
(* middleware/auth.js *)

\* tokens jwt.verify throws on: not a signed token, or one past its 24 hours
BadTokens == {"malformed", "expired"}

jwtVerify(token) == token \notin BadTokens

\* authenticate: a token is sent, it verifies, and its userId resolves to a
\* stored account
authenticate(token) ==
    token # NoToken /\ jwtVerify(token) /\ token \in DOMAIN users

\* the role jwt.sign wrote into the token of an account registered at the
\* start, which is the role it was registered with
TokenRole(token) ==
    CASE token = "a1" -> "admin"
      [] token = "s1" -> "seller"
      [] OTHER -> "user"

\* isAdmin going by the role in the token
isAdminByToken(u) == TokenRole(u) = "admin"

\* isAdmin letting a seller through as well
isAdminLax(u) == users[u].role # "user"

isAdmin(u) == users[u].role = "admin"

isAdminOrSeller(u) == users[u].role = "admin" \/ users[u].role = "seller"

---------------------------------------------------------------------------
(* Requests *)

IdleReq ==
    [kind |-> "none", pc |-> "idle", user |-> NoToken, body |-> <<>>,
     id |-> 0, i |-> 0, product |-> <<>>, orderProducts |-> <<>>,
     totalAmount |-> 0, order |-> <<>>, res |-> 0, pre |-> <<>>,
     hashedPassword |-> "", message |-> "", out |-> <<>>]

InFlight(r) == reqs[r].pc \notin {"idle", "done"}

\* a request arrives: the lowest free slot takes it
CanStart(r) ==
    /\ served < MaxReqs
    /\ reqs[r].pc = "idle"
    /\ \A q \in ReqIds : q < r => reqs[q].pc # "idle"

\* the stores as the call finds them (history, read by the properties only)
Pre == [products |-> products, orders |-> orders, users |-> users]

(* History.  created: the quantity each product was created with.          *)
(* lostUpdate: some write of /buy has replaced a quantity other than the    *)
(* one its handler had read.  atBuy: per order, the catalog when the call   *)
(* that placed it arrived (before) and when it saved the order (after).     *)
(* deleted: the accounts DELETE /user/:id has removed.  raw: per account,   *)
(* the passwords it was registered with and then changed to, in order.      *)
(* restored: per order and product, the units the cancel calls have added   *)
(* back to the product on account of the order.  issued: the accounts the   *)
(* login calls of the run have issued a token for.                          *)
InitPassword == "pw1"

History(created) ==
    [created |-> created, lostUpdate |-> FALSE, atBuy |-> <<>>, deleted |-> {},
     raw |-> [u \in UserIds |-> <<InitPassword>>],
     restored |-> [o \in 1..MaxReqs |-> [p \in AnyProductId |-> 0]],
     issued |-> {}]

Respond(r, code) == reqs' = [reqs EXCEPT ![r].pc = "done", ![r].res = code]

\* the response is sent and the request is forgotten
Finish(r) ==
    /\ reqs[r].pc = "done"
    /\ reqs' = [reqs EXCEPT ![r] = IdleReq]
    /\ UNCHANGED <<users, products, orders, served, hist>>

\* the part of every protected route that runs before its handler
Started(r, kind, token, id, body) ==
    [IdleReq EXCEPT !.kind = kind, !.user = token, !.id = id, !.body = body,
                    !.pre = Pre]

Rejected(r, kind, token, id, body, code) ==
    reqs' = [reqs EXCEPT ![r] = [Started(r, kind, token, id, body)
                                   EXCEPT !.pc = "done", !.res = code]]

---------------------------------------------------------------------------
(* POST /api/user/buy *)

\* the status the Order schema gives a document built without one
DefaultStatus == "pending"

\* new Order({userId, products, totalAmount, shippingAddress})
NewOrder(userId, lines, total) ==
    [userId |-> userId, products |-> lines, totalAmount |-> total,
     status |-> DefaultStatus]

NextOrderId == Cardinality(DOMAIN orders) + 1

\* authenticate, then the handler up to its first await
BuyStart(r, token, body) ==
    /\ CanStart(r)
    /\ IF ~authenticate(token)
         THEN Rejected(r, "buy", token, 0, body, 401)
       ELSE IF "products" \notin DOMAIN body \/ Len(body.products) = 0
         THEN Rejected(r, "buy", token, 0, body, 400)
       ELSE reqs' = [reqs EXCEPT ![r] =
                [Started(r, "buy", token, 0, body) EXCEPT !.pc = "find", !.i = 1]]
    /\ served' = served + 1
    /\ UNCHANGED <<users, products, orders, hist>>
\* BuyFind with `totalAmount = price * quantity` in place of `+=`
BuyFindAssignTotal(r) ==
    /\ reqs[r].kind = "buy" /\ reqs[r].pc = "find"
    /\ LET item == reqs[r].body.products[reqs[r].i] IN
       IF item.productId \notin DOMAIN products
         THEN Respond(r, 404)
       ELSE LET product == products[item.productId] IN
         IF product.quantity < item.quantity
           THEN Respond(r, 400)
         ELSE reqs' = [reqs EXCEPT
                ![r].pc = "update",
                ![r].product = product,
                ![r].orderProducts = Append(@,
                    [productId |-> item.productId, name |-> product.name,
                     price |-> product.price, quantity |-> item.quantity]),
                ![r].totalAmount = product.price * item.quantity]
    /\ UNCHANGED <<users, products, orders, served, hist>>

\* BuyFind saving the lines gathered so far as an order before it reports a failure
BuyFindSavePartial(r) ==
    /\ reqs[r].kind = "buy" /\ reqs[r].pc = "find"
    /\ LET item == reqs[r].body.products[reqs[r].i]
           partial == [o \in DOMAIN orders \cup {Cardinality(DOMAIN orders) + 1} |->
                        IF o \in DOMAIN orders THEN orders[o]
                        ELSE [userId |-> reqs[r].user,
                              products |-> reqs[r].orderProducts,
                              totalAmount |-> reqs[r].totalAmount,
                              status |-> DefaultStatus]]
       IN
       IF item.productId \notin DOMAIN products
         THEN Respond(r, 404) /\ orders' = partial
       ELSE LET product == products[item.productId] IN
         IF product.quantity < item.quantity
           THEN Respond(r, 400) /\ orders' = partial
         ELSE /\ reqs' = [reqs EXCEPT
                    ![r].pc = "update",
                    ![r].product = product,
                    ![r].orderProducts = Append(@,
                        [productId |-> item.productId, name |-> product.name,
                         price |-> product.price, quantity |-> item.quantity]),
                    ![r].totalAmount = @ + product.price * item.quantity]
              /\ UNCHANGED orders
    /\ UNCHANGED <<users, products, served, hist>>

\* BuyFind undoing the decrements of the earlier lines when a line fails
BuyFindRollback(r) ==
    /\ reqs[r].kind = "buy" /\ reqs[r].pc = "find"
    /\ LET item == reqs[r].body.products[reqs[r].i]
           undone == [p \in DOMAIN products |->
                        [products[p] EXCEPT !.quantity =
                            @ + Requested(reqs[r].body.products, p, reqs[r].i - 1)]]
       IN
       IF item.productId \notin DOMAIN products
         THEN Respond(r, 404) /\ products' = undone
       ELSE LET product == products[item.productId] IN
         IF product.quantity < item.quantity
           THEN Respond(r, 400) /\ products' = undone
         ELSE /\ reqs' = [reqs EXCEPT
                    ![r].pc = "update",
                    ![r].product = product,
                    ![r].orderProducts = Append(@,
                        [productId |-> item.productId, name |-> product.name,
                         price |-> product.price, quantity |-> item.quantity]),
                    ![r].totalAmount = @ + product.price * item.quantity]
              /\ UNCHANGED products
    /\ UNCHANGED <<users, orders, served, hist>>

\* BuyFind without the `product.quantity < item.quantity` check
BuyFindNoCheck(r) ==
    /\ reqs[r].kind = "buy" /\ reqs[r].pc = "find"
    /\ LET item == reqs[r].body.products[reqs[r].i] IN
       IF item.productId \notin DOMAIN products
         THEN Respond(r, 404)
       ELSE LET product == products[item.productId] IN
            reqs' = [reqs EXCEPT
                ![r].pc = "update",
                ![r].product = product,
                ![r].orderProducts = Append(@,
                    [productId |-> item.productId, name |-> product.name,
                     price |-> product.price, quantity |-> item.quantity]),
                ![r].totalAmount = @ + product.price * item.quantity]
    /\ UNCHANGED <<users, products, orders, served, hist>>

\* BuyFind checking each line against the stock the call found on arrival
BuyFindAtArrival(r) ==
    /\ reqs[r].kind = "buy" /\ reqs[r].pc = "find"
    /\ LET item == reqs[r].body.products[reqs[r].i] IN
       IF item.productId \notin DOMAIN products
         THEN reqs' = [reqs EXCEPT ![r].pc = "done", ![r].res = 404,
                        ![r].message = "Product not found: " \o item.productId]
       ELSE LET product == products[item.productId] IN
         IF item.productId \in DOMAIN reqs[r].pre.products
            /\ reqs[r].pre.products[item.productId].quantity < item.quantity
           THEN reqs' = [reqs EXCEPT ![r].pc = "done", ![r].res = 400,
                        ![r].message = "Insufficient stock for " \o product.name]
         ELSE reqs' = [reqs EXCEPT
                ![r].pc = "update",
                ![r].product = product,
                ![r].orderProducts = Append(@,
                    [productId |-> item.productId, name |-> product.name,
                     price |-> product.price, quantity |-> item.quantity]),
                ![r].totalAmount = @ + product.price * item.quantity]
    /\ UNCHANGED <<users, products, orders, served, hist>>

\* Product.findById(item.productId) and the two checks on its result
BuyFind(r) ==
    /\ reqs[r].kind = "buy" /\ reqs[r].pc = "find"
    /\ LET item == reqs[r].body.products[reqs[r].i] IN
       IF item.productId \notin DOMAIN products
         THEN reqs' = [reqs EXCEPT ![r].pc = "done", ![r].res = 404,
                        ![r].message = "Product not found: " \o item.productId]
       ELSE LET product == products[item.productId] IN
         IF product.quantity < item.quantity
           THEN reqs' = [reqs EXCEPT ![r].pc = "done", ![r].res = 400,
                        ![r].message = "Insufficient stock for " \o product.name]
         ELSE reqs' = [reqs EXCEPT
                ![r].pc = "update",
                ![r].product = product,
                ![r].orderProducts = Append(@,
                    [productId |-> item.productId, name |-> product.name,
                     price |-> product.price, quantity |-> item.quantity]),
                ![r].totalAmount = @ + product.price * item.quantity]
    /\ UNCHANGED <<users, products, orders, served, hist>>
\* BuyUpdate with `$inc: {quantity: -item.quantity}` in place of the value computed
\* from the document read
BuyUpdateDec(r) ==
    /\ reqs[r].kind = "buy" /\ reqs[r].pc = "update"
    /\ LET item == reqs[r].body.products[reqs[r].i]
           p == item.productId
       IN  /\ products' =
                IF p \in DOMAIN products
                  THEN [products EXCEPT ![p].quantity = @ - item.quantity]
                  ELSE products
           /\ reqs' = IF reqs[r].i < Len(reqs[r].body.products)
                        THEN [reqs EXCEPT ![r].pc = "find", ![r].i = @ + 1]
                        ELSE [reqs EXCEPT ![r].pc = "save"]
           /\ hist' = [hist EXCEPT !.lostUpdate =
                        @ \/ (p \in DOMAIN products
                              /\ products[p].quantity # reqs[r].product.quantity)]
    /\ UNCHANGED <<users, orders, served>>

\* Product.findByIdAndUpdate(product._id, {quantity: product.quantity - item.quantity})
BuyUpdate(r) ==
    /\ reqs[r].kind = "buy" /\ reqs[r].pc = "update"
    /\ LET item == reqs[r].body.products[reqs[r].i]
           p == item.productId
       IN  /\ products' =
                IF p \in DOMAIN products
                  THEN [products EXCEPT ![p].quantity =
                            reqs[r].product.quantity - item.quantity]
                  ELSE products
           /\ reqs' = IF reqs[r].i < Len(reqs[r].body.products)
                        THEN [reqs EXCEPT ![r].pc = "find", ![r].i = @ + 1]
                        ELSE [reqs EXCEPT ![r].pc = "save"]
           /\ hist' = [hist EXCEPT !.lostUpdate =
                        @ \/ (p \in DOMAIN products
                              /\ products[p].quantity # reqs[r].product.quantity)]
    /\ UNCHANGED <<users, orders, served>>

\* order.save() and the 201 response
BuySave(r) ==
    /\ reqs[r].kind = "buy" /\ reqs[r].pc = "save"
    /\ orders' = [o \in DOMAIN orders \cup {NextOrderId} |->
                    IF o \in DOMAIN orders THEN orders[o]
                    ELSE NewOrder(reqs[r].user, reqs[r].orderProducts,
                                  reqs[r].totalAmount)]
    /\ reqs' = [reqs EXCEPT ![r].pc = "done", ![r].res = 201, ![r].id = NextOrderId]
    /\ hist' = [hist EXCEPT !.atBuy =
                    [o \in DOMAIN orders \cup {NextOrderId} |->
                        IF o \in DOMAIN orders THEN hist.atBuy[o]
                        ELSE [before |-> reqs[r].pre.products, after |-> products]]]
    /\ UNCHANGED <<users, products, served>>

---------------------------------------------------------------------------
(* PUT /api/user/order/:id/cancel *)

CancelStart(r, token, id) ==
    /\ CanStart(r)
    /\ IF ~authenticate(token)
         THEN Rejected(r, "cancel", token, id, <<>>, 401)
       ELSE reqs' = [reqs EXCEPT ![r] =
                [Started(r, "cancel", token, id, <<>>) EXCEPT !.pc = "findOne"]]
    /\ served' = served + 1
    /\ UNCHANGED <<users, products, orders, hist>>
\* CancelFind looking the order up by its id alone, whoever owns it
CancelFindAnyOwner(r) ==
    /\ reqs[r].kind = "cancel" /\ reqs[r].pc = "findOne"
    /\ LET id == reqs[r].id IN
       IF id \notin DOMAIN orders
         THEN Respond(r, 404)
       ELSE IF orders[id].status # "pending"
         THEN Respond(r, 400)
       ELSE reqs' = [reqs EXCEPT
                ![r].order = orders[id],
                ![r].i = 1,
                ![r].pc = IF Len(orders[id].products) = 0
                            THEN "saveStatus" ELSE "inc"]
    /\ UNCHANGED <<users, products, orders, served, hist>>

\* CancelFind without the `order.status !== 'pending'` guard
CancelFindNoGuard(r) ==
    /\ reqs[r].kind = "cancel" /\ reqs[r].pc = "findOne"
    /\ LET id == reqs[r].id IN
       IF id \notin DOMAIN orders \/ orders[id].userId # reqs[r].user
         THEN Respond(r, 404)
       ELSE reqs' = [reqs EXCEPT
                ![r].order = orders[id],
                ![r].i = 1,
                ![r].pc = IF Len(orders[id].products) = 0
                            THEN "saveStatus" ELSE "inc"]
    /\ UNCHANGED <<users, products, orders, served, hist>>

\* Order.findOne({_id, userId: req.user._id}) and the status guard
CancelFind(r) ==
    /\ reqs[r].kind = "cancel" /\ reqs[r].pc = "findOne"
    /\ LET id == reqs[r].id IN
       IF id \notin DOMAIN orders \/ orders[id].userId # reqs[r].user
         THEN Respond(r, 404)
       ELSE IF orders[id].status # "pending"
         THEN Respond(r, 400)
       ELSE reqs' = [reqs EXCEPT
                ![r].order = orders[id],
                ![r].i = 1,
                ![r].pc = IF Len(orders[id].products) = 0
                            THEN "saveStatus" ELSE "inc"]
    /\ UNCHANGED <<users, products, orders, served, hist>>
\* CancelInc with `$inc: {quantity: 1}`
CancelIncOne(r) ==
    /\ reqs[r].kind = "cancel" /\ reqs[r].pc = "inc"
    /\ LET item == reqs[r].order.products[reqs[r].i]
           p == item.productId
       IN  /\ products' =
                IF p \in DOMAIN products
                  THEN [products EXCEPT ![p].quantity = @ + 1]
                  ELSE products
           /\ reqs' = IF reqs[r].i < Len(reqs[r].order.products)
                        THEN [reqs EXCEPT ![r].i = @ + 1]
                        ELSE [reqs EXCEPT ![r].pc = "saveStatus"]
    /\ UNCHANGED <<users, orders, served, hist>>

\* CancelInc with {upsert: true}: a product that is gone is inserted anew
CancelIncUpsert(r) ==
    /\ reqs[r].kind = "cancel" /\ reqs[r].pc = "inc"
    /\ LET item == reqs[r].order.products[reqs[r].i]
           p == item.productId
       IN  /\ products' =
                [q \in DOMAIN products \cup {p} |->
                    IF q # p THEN products[q]
                    ELSE IF p \in DOMAIN products
                      THEN [products[p] EXCEPT !.quantity = @ + item.quantity]
                      ELSE [name |-> item.name, price |-> item.price,
                            quantity |-> item.quantity]]
           /\ reqs' = IF reqs[r].i < Len(reqs[r].order.products)
                        THEN [reqs EXCEPT ![r].i = @ + 1]
                        ELSE [reqs EXCEPT ![r].pc = "saveStatus"]
    /\ UNCHANGED <<users, orders, served, hist>>

\* Product.findByIdAndUpdate(item.productId, {$inc: {quantity: item.quantity}})
CancelInc(r) ==
    /\ reqs[r].kind = "cancel" /\ reqs[r].pc = "inc"
    /\ LET item == reqs[r].order.products[reqs[r].i]
           p == item.productId
       IN  /\ products' =
                IF p \in DOMAIN products
                  THEN [products EXCEPT ![p].quantity = @ + item.quantity]
                  ELSE products
           /\ reqs' = IF reqs[r].i < Len(reqs[r].order.products)
                        THEN [reqs EXCEPT ![r].i = @ + 1]
                        ELSE [reqs EXCEPT ![r].pc = "saveStatus"]
           /\ hist' = IF p \in DOMAIN products
                        THEN [hist EXCEPT !.restored[reqs[r].id][p] = @ + item.quantity]
                        ELSE hist
    /\ UNCHANGED <<users, orders, served>>

\* order.status = 'cancelled'; order.save(): the one modified path is written
CancelSave(r) ==
    /\ reqs[r].kind = "cancel" /\ reqs[r].pc = "saveStatus"
    /\ orders' = [orders EXCEPT ![reqs[r].id].status = "cancelled"]
    /\ Respond(r, 200)
    /\ UNCHANGED <<users, products, served, hist>>

---------------------------------------------------------------------------
(* PUT /api/admin/order/:id/status *)

\* SetStatusStart on a route that lacks the isAdmin middleware
SetStatusStartNoAdmin(r, token, id, status) ==
    /\ CanStart(r)
    /\ IF ~authenticate(token)
         THEN Rejected(r, "setStatus", token, id, status, 401)
       ELSE IF status \notin Statuses
         THEN Rejected(r, "setStatus", token, id, status, 400)
       ELSE reqs' = [reqs EXCEPT ![r] =
                [Started(r, "setStatus", token, id, status)
                    EXCEPT !.pc = "statusUpdate"]]
    /\ served' = served + 1
    /\ UNCHANGED <<users, products, orders, hist>>

SetStatusStart(r, token, id, status) ==
    /\ CanStart(r)
    /\ IF ~authenticate(token)
         THEN Rejected(r, "setStatus", token, id, status, 401)
       ELSE IF ~isAdmin(token)
         THEN Rejected(r, "setStatus", token, id, status, 403)
       ELSE IF status \notin Statuses
         THEN Rejected(r, "setStatus", token, id, status, 400)
       ELSE reqs' = [reqs EXCEPT ![r] =
                [Started(r, "setStatus", token, id, status)
                    EXCEPT !.pc = "statusUpdate"]]
    /\ served' = served + 1
    /\ UNCHANGED <<users, products, orders, hist>>
\* SetStatusUpdate giving the stock of the lines back when it sets cancelled
SetStatusUpdateRestore(r) ==
    /\ reqs[r].kind = "setStatus" /\ reqs[r].pc = "statusUpdate"
    /\ IF reqs[r].id \notin DOMAIN orders
         THEN Respond(r, 404) /\ UNCHANGED <<orders, products>>
         ELSE /\ orders' = [orders EXCEPT ![reqs[r].id].status = reqs[r].body]
              /\ products' =
                    IF reqs[r].body = "cancelled"
                      THEN [p \in DOMAIN products |->
                              [products[p] EXCEPT !.quantity =
                                  @ + RequestedAll(orders[reqs[r].id].products, p)]]
                      ELSE products
              /\ Respond(r, 200)
    /\ UNCHANGED <<users, served, hist>>

\* Order.findByIdAndUpdate(req.params.id, {status}, {new: true})
SetStatusUpdate(r) ==
    /\ reqs[r].kind = "setStatus" /\ reqs[r].pc = "statusUpdate"
    /\ IF reqs[r].id \notin DOMAIN orders
         THEN Respond(r, 404) /\ UNCHANGED orders
         ELSE /\ orders' = [orders EXCEPT ![reqs[r].id].status = reqs[r].body]
              /\ Respond(r, 200)
    /\ UNCHANGED <<users, products, served, hist>>

---------------------------------------------------------------------------
(* PUT /api/product/:id, PUT /api/admin/product/:id, PUT /api/seller/product/:id *)

\* the fields of doc, those the body names replaced
Merge(body, doc) ==
    [f \in DOMAIN doc |-> IF f \in DOMAIN body THEN body[f] ELSE doc[f]]

\* adminOnly: the route is guarded by isAdmin, otherwise by isAdminOrSeller
ProductUpdateStart(r, token, adminOnly, id, body) ==
    /\ CanStart(r)
    /\ LET kind == IF adminOnly THEN "adminUpdateProduct" ELSE "updateProduct" IN
       IF ~authenticate(token)
         THEN Rejected(r, kind, token, id, body, 401)
       ELSE IF (adminOnly /\ ~isAdmin(token)) \/ (~adminOnly /\ ~isAdminOrSeller(token))
         THEN Rejected(r, kind, token, id, body, 403)
       ELSE reqs' = [reqs EXCEPT ![r] =
                [Started(r, kind, token, id, body)
                    EXCEPT !.pc = "productUpdate"]]
    /\ served' = served + 1
    /\ UNCHANGED <<users, products, orders, hist>>
\* ProductUpdate carrying the new name and price into the lines of the orders
ProductUpdateCascade(r) ==
    /\ reqs[r].kind \in {"updateProduct", "adminUpdateProduct"}
    /\ reqs[r].pc = "productUpdate"
    /\ IF reqs[r].id \notin DOMAIN products
         THEN Respond(r, 404) /\ UNCHANGED <<products, orders>>
         ELSE /\ products' = [products EXCEPT ![reqs[r].id] = Merge(reqs[r].body, @)]
              /\ orders' = [o \in DOMAIN orders |->
                    [orders[o] EXCEPT !.products =
                        [k \in 1..Len(@) |->
                            IF @[k].productId = reqs[r].id
                              THEN Merge([f \in DOMAIN reqs[r].body \ {"quantity"} |->
                                            reqs[r].body[f]], @[k])
                              ELSE @[k]]]]
              /\ Respond(r, 200)
    /\ UNCHANGED <<users, served, hist>>

\* Product.findByIdAndUpdate(req.params.id, req.body, {new: true})
ProductUpdate(r) ==
    /\ reqs[r].kind \in {"updateProduct", "adminUpdateProduct"}
    /\ reqs[r].pc = "productUpdate"
    /\ IF reqs[r].id \notin DOMAIN products
         THEN Respond(r, 404) /\ UNCHANGED products
         ELSE /\ products' = [products EXCEPT ![reqs[r].id] = Merge(reqs[r].body, @)]
              /\ Respond(r, 200)
    /\ UNCHANGED <<users, orders, served, hist>>

---------------------------------------------------------------------------
(* DELETE /api/product/:id, DELETE /api/admin/product/:id *)

ProductDeleteStart(r, token, id) ==
    /\ CanStart(r)
    /\ IF ~authenticate(token)
         THEN Rejected(r, "deleteProduct", token, id, <<>>, 401)
       ELSE IF ~isAdmin(token)
         THEN Rejected(r, "deleteProduct", token, id, <<>>, 403)
       ELSE reqs' = [reqs EXCEPT ![r] =
                [Started(r, "deleteProduct", token, id, <<>>)
                    EXCEPT !.pc = "productDelete"]]
    /\ served' = served + 1
    /\ UNCHANGED <<users, products, orders, hist>>
\* Product.findByIdAndDelete(req.params.id)
ProductDelete(r) ==
    /\ reqs[r].kind = "deleteProduct" /\ reqs[r].pc = "productDelete"
    /\ IF reqs[r].id \notin DOMAIN products
         THEN Respond(r, 404) /\ UNCHANGED products
         ELSE /\ products' = [p \in DOMAIN products \ {reqs[r].id} |-> products[p]]
              /\ Respond(r, 200)
    /\ UNCHANGED <<users, orders, served, hist>>

---------------------------------------------------------------------------
(* bcryptjs, as the routes use it *)

\* a value of a request body that is not a string (the field is absent, or
\* holds a number)
NotAString == "<not a string>"

Salts == {"sA", "sB"}

\* bcrypt reads the first 72 bytes of a password: "long" stands for a password
\* of 72 bytes, "longer" for the same bytes followed by more
Key(s) == IF s = "longer" THEN "long" ELSE s

\* bcrypt.hash(s, 10), the salt drawn being `salt`
bcryptHash(s, salt) == "$2a$10$" \o salt \o "$" \o Key(s)

\* bcrypt.compare(s, hash): hash is what s hashes to under the salt hash holds
bcryptCompare(s, hash) == \E salt \in Salts : hash = bcryptHash(s, salt)

\* both throw on a value that is not a string
bcryptThrows(s) == s = NotAString

---------------------------------------------------------------------------
(* Accounts: POST /api/user/register, /api/seller/register, /api/admin/create *)

Respond3(r, code, message) ==
    reqs' = [reqs EXCEPT ![r].pc = "done", ![r].res = code, ![r].message = message]

\* the User schema's treatment of an email, in documents and in filters: it
\* is kept as given, letter case included
SchemaEmail(email) == email

\* whether the users collection has a unique index on email
EmailIndexIsUnique == FALSE

\* User.findOne({email}): the accounts the filter matches
WithEmail(email) ==
    {u \in DOMAIN users : users[u].email = SchemaEmail(email)}

\* the write would leave two documents with the email of account u, and the
\* collection refuses that
DuplicateKey(u, email) ==
    EmailIndexIsUnique /\ WithEmail(email) \ {u} # {}

RegisterRoutes == {"register", "sellerRegister", "adminCreate"}

\* role: 'user' | 'seller' | 'admin' in the three handlers
RegisterRole(route) ==
    CASE route = "register" -> "user"
      [] route = "sellerRegister" -> "seller"
      [] route = "adminCreate" -> "admin"

\* the _id of the document the k-th request of a run creates
AccountId(k) == "n" \o ToString(k)

RegisterStart(r, route, body) ==
    /\ CanStart(r)
    /\ reqs' = [reqs EXCEPT ![r] =
            [Started(r, route, NoToken, 0, body)
                EXCEPT !.pc = "findEmail", !.i = served + 1]]
    /\ served' = served + 1
    /\ UNCHANGED <<users, products, orders, hist>>

\* the email with its letters in lower case
Lower(email) == IF email = "U1@x" THEN "u1@x" ELSE email

\* RegisterFind looking the email up without regard to letter case
RegisterFindFoldCase(r) ==
    /\ reqs[r].kind \in RegisterRoutes /\ reqs[r].pc = "findEmail"
    /\ IF \E u \in DOMAIN users : Lower(users[u].email) = Lower(reqs[r].body.email)
         THEN Respond3(r, 400, "already exists with this email")
       ELSE IF bcryptThrows(reqs[r].body.password)
         THEN Respond3(r, 400, "Error registering")
       ELSE \E salt \in Salts :
            reqs' = [reqs EXCEPT
                ![r].hashedPassword = bcryptHash(reqs[r].body.password, salt),
                ![r].pc = "saveAccount"]
    /\ UNCHANGED <<users, products, orders, served, hist>>

\* User.findOne({email}), the 400 if it finds one, then bcrypt.hash(password, 10)
RegisterFind(r) ==
    /\ reqs[r].kind \in RegisterRoutes /\ reqs[r].pc = "findEmail"
    /\ IF WithEmail(reqs[r].body.email) # {}
         THEN Respond3(r, 400, "already exists with this email")
       ELSE IF bcryptThrows(reqs[r].body.password)
         THEN Respond3(r, 400, "Error registering")
       ELSE \E salt \in Salts :
            reqs' = [reqs EXCEPT
                ![r].hashedPassword = bcryptHash(reqs[r].body.password, salt),
                ![r].pc = "saveAccount"]
    /\ UNCHANGED <<users, products, orders, served, hist>>

\* new User({name, email, password: hashedPassword, role})
NewUser(email, hashedPassword, role) ==
    [role |-> role, email |-> SchemaEmail(email), password |-> hashedPassword]

\* user.save() and the 201
RegisterSave(r) ==
    /\ reqs[r].kind \in RegisterRoutes /\ reqs[r].pc = "saveAccount"
    /\ LET id == AccountId(reqs[r].i) IN
       IF DuplicateKey(id, reqs[r].body.email)
         THEN Respond3(r, 400, "Error registering") /\ UNCHANGED <<users, hist>>
         ELSE /\ users' = [u \in DOMAIN users \cup {id} |->
                    IF u \in DOMAIN users THEN users[u]
                    ELSE NewUser(reqs[r].body.email, reqs[r].hashedPassword,
                                 RegisterRole(reqs[r].kind))]
              /\ reqs' = [reqs EXCEPT ![r].pc = "done", ![r].res = 201,
                                      ![r].message = "registered successfully",
                                      ![r].out = id]
              /\ hist' = [hist EXCEPT !.raw =
                    [u \in DOMAIN hist.raw \cup {id} |->
                        IF u \in DOMAIN hist.raw THEN hist.raw[u]
                        ELSE <<reqs[r].body.password>>]]
    /\ UNCHANGED <<products, orders, served>>

---------------------------------------------------------------------------
(* POST /api/user/login, /api/seller/login, /api/admin/login *)

LoginRoutes == {"login", "sellerLogin", "adminLogin"}

\* the filter of findOne: {email}, {email, role: 'seller'}, {email, role: 'admin'}
LoginFilter(route, u) ==
    CASE route = "login" -> TRUE
      [] route = "sellerLogin" -> users[u].role = "seller"
      [] route = "adminLogin" -> users[u].role = "admin"

\* the message of the handler's two 400 responses
LoginMessage(route) ==
    CASE route = "login" -> "Invalid email or password"
      [] route = "sellerLogin" -> "Invalid seller credentials"
      [] route = "adminLogin" -> "Invalid admin credentials"

\* the message of the handler's 200 response
LoginSuccess(route) ==
    CASE route = "login" -> "Login successful"
      [] route = "sellerLogin" -> "Seller login successful"
      [] route = "adminLogin" -> "Admin login successful"

LoginStart(r, route, body) ==
    /\ CanStart(r)
    /\ reqs' = [reqs EXCEPT ![r] =
            [Started(r, route, NoToken, 0, body) EXCEPT !.pc = "findAccount"]]
    /\ served' = served + 1
    /\ UNCHANGED <<users, products, orders, hist>>

\* User.findOne(filter), bcrypt.compare(password, user.password), jwt.sign.
\* Where several documents match, findOne returns any one of them.
LoginFind(r) ==
    /\ reqs[r].kind \in LoginRoutes /\ reqs[r].pc = "findAccount"
    /\ LET found == {u \in WithEmail(reqs[r].body.email) :
                        LoginFilter(reqs[r].kind, u)}
       IN
       IF found = {}
         THEN Respond3(r, 400, LoginMessage(reqs[r].kind))
       ELSE \E u \in found :
         IF bcryptThrows(reqs[r].body.password)
           THEN Respond3(r, 500, "Error logging in")
         ELSE IF ~bcryptCompare(reqs[r].body.password, users[u].password)
           THEN Respond3(r, 400, LoginMessage(reqs[r].kind))
         ELSE reqs' = [reqs EXCEPT ![r].pc = "done", ![r].res = 200,
                                   ![r].message = LoginSuccess(reqs[r].kind),
                                   ![r].out = [userId |-> u, role |-> users[u].role]]
    /\ hist' = IF reqs'[r].res = 200
                THEN [hist EXCEPT !.issued = @ \cup {reqs'[r].out.userId}]
                ELSE hist
    /\ UNCHANGED <<users, products, orders, served>>

---------------------------------------------------------------------------
(* PUT /api/user/profile, PUT /api/seller/profile *)

\* sellerRoute: the route is guarded by isAdminOrSeller as well
ProfileStart(r, token, sellerRoute, body) ==
    /\ CanStart(r)
    /\ LET kind == IF sellerRoute THEN "sellerProfile" ELSE "profile" IN
       IF ~authenticate(token)
         THEN Rejected(r, kind, token, 0, body, 401)
       ELSE IF sellerRoute /\ ~isAdminOrSeller(token)
         THEN Rejected(r, kind, token, 0, body, 403)
       ELSE reqs' = [reqs EXCEPT ![r] =
                [Started(r, kind, token, 0, body) EXCEPT !.pc = "profileUpdate"]]
    /\ served' = served + 1
    /\ UNCHANGED <<users, products, orders, hist>>

\* ProfileUpdate writing the whole of req.body into the account
ProfileUpdateWhole(r) ==
    /\ reqs[r].kind \in {"profile", "sellerProfile"} /\ reqs[r].pc = "profileUpdate"
    /\ LET u == reqs[r].user IN
       IF u \notin DOMAIN users \/ DuplicateKey(u, reqs[r].body.email)
         THEN Respond3(r, 400, "Error updating profile") /\ UNCHANGED users
         ELSE /\ users' = [users EXCEPT ![u] = Merge(reqs[r].body, @)]
              /\ Respond3(r, 200, "Profile updated successfully")
    /\ UNCHANGED <<products, orders, served, hist>>

\* User.findByIdAndUpdate(req.user._id, {name, email}, {new: true}); reading
\* user.name of the null it returns for a deleted account throws, hence 400
ProfileUpdate(r) ==
    /\ reqs[r].kind \in {"profile", "sellerProfile"} /\ reqs[r].pc = "profileUpdate"
    /\ LET u == reqs[r].user IN
       IF u \notin DOMAIN users \/ DuplicateKey(u, reqs[r].body.email)
         THEN Respond3(r, 400, "Error updating profile") /\ UNCHANGED users
         ELSE /\ users' = [users EXCEPT ![u].email = SchemaEmail(reqs[r].body.email)]
              /\ Respond3(r, 200, "Profile updated successfully")
    /\ UNCHANGED <<products, orders, served, hist>>

---------------------------------------------------------------------------
(* PUT /api/user/change-password *)

\* ChangePasswordStart without the comparison of currentPassword
ChangePasswordStartNoCheck(r, token, body) ==
    /\ CanStart(r)
    /\ IF ~authenticate(token)
         THEN Rejected(r, "changePassword", token, 0, body, 401)
       ELSE IF bcryptThrows(body.newPassword)
         THEN Rejected(r, "changePassword", token, 0, body, 400)
       ELSE \E salt \in Salts :
            reqs' = [reqs EXCEPT ![r] =
                [Started(r, "changePassword", token, 0, body)
                    EXCEPT !.pc = "passwordUpdate",
                           !.hashedPassword = bcryptHash(body.newPassword, salt)]]
    /\ served' = served + 1
    /\ UNCHANGED <<users, products, orders, hist>>

\* authenticate, bcrypt.compare(currentPassword, req.user.password) on the
\* account as authenticate loaded it, bcrypt.hash(newPassword, 10)
ChangePasswordStart(r, token, body) ==
    /\ CanStart(r)
    /\ IF ~authenticate(token)
         THEN Rejected(r, "changePassword", token, 0, body, 401)
       ELSE IF bcryptThrows(body.currentPassword)
         THEN Rejected(r, "changePassword", token, 0, body, 400)
       ELSE IF ~bcryptCompare(body.currentPassword, users[token].password)
         THEN reqs' = [reqs EXCEPT ![r] =
                [Started(r, "changePassword", token, 0, body)
                    EXCEPT !.pc = "done", !.res = 400,
                           !.message = "Current password is incorrect"]]
       ELSE IF bcryptThrows(body.newPassword)
         THEN Rejected(r, "changePassword", token, 0, body, 400)
       ELSE \E salt \in Salts :
            reqs' = [reqs EXCEPT ![r] =
                [Started(r, "changePassword", token, 0, body)
                    EXCEPT !.pc = "passwordUpdate",
                           !.hashedPassword = bcryptHash(body.newPassword, salt)]]
    /\ served' = served + 1
    /\ UNCHANGED <<users, products, orders, hist>>

\* ChangePasswordUpdate storing newPassword itself
ChangePasswordUpdateRaw(r) ==
    /\ reqs[r].kind = "changePassword" /\ reqs[r].pc = "passwordUpdate"
    /\ IF reqs[r].user \in DOMAIN users
         THEN /\ users' = [users EXCEPT
                    ![reqs[r].user].password = reqs[r].body.newPassword]
              /\ hist' = [hist EXCEPT
                    !.raw[reqs[r].user] = Append(@, reqs[r].body.newPassword)]
         ELSE UNCHANGED <<users, hist>>
    /\ Respond3(r, 200, "Password changed successfully")
    /\ UNCHANGED <<products, orders, served>>

\* User.findByIdAndUpdate(req.user._id, {password: hashedPassword}) and the 200
ChangePasswordUpdate(r) ==
    /\ reqs[r].kind = "changePassword" /\ reqs[r].pc = "passwordUpdate"
    /\ IF reqs[r].user \in DOMAIN users
         THEN /\ users' = [users EXCEPT
                    ![reqs[r].user].password = reqs[r].hashedPassword]
              /\ hist' = [hist EXCEPT
                    !.raw[reqs[r].user] = Append(@, reqs[r].body.newPassword)]
         ELSE UNCHANGED <<users, hist>>
    /\ Respond3(r, 200, "Password changed successfully")
    /\ UNCHANGED <<products, orders, served>>

---------------------------------------------------------------------------
(* DELETE /api/admin/user/:id *)

DeleteUserStart(r, token, id) ==
    /\ CanStart(r)
    /\ IF ~authenticate(token)
         THEN Rejected(r, "deleteUser", token, id, <<>>, 401)
       ELSE IF ~isAdmin(token)
         THEN Rejected(r, "deleteUser", token, id, <<>>, 403)
       ELSE reqs' = [reqs EXCEPT ![r] =
                [Started(r, "deleteUser", token, id, <<>>) EXCEPT !.pc = "userDelete"]]
    /\ served' = served + 1
    /\ UNCHANGED <<users, products, orders, hist>>

\* DeleteUser answering 200 and leaving the account in the collection
DeleteUserKeep(r) ==
    /\ reqs[r].kind = "deleteUser" /\ reqs[r].pc = "userDelete"
    /\ IF reqs[r].id \notin DOMAIN users
         THEN Respond(r, 404) /\ UNCHANGED hist
         ELSE /\ hist' = [hist EXCEPT !.deleted = @ \cup {reqs[r].id}]
              /\ Respond(r, 200)
    /\ UNCHANGED <<users, products, orders, served>>

\* User.findByIdAndDelete(req.params.id)
DeleteUser(r) ==
    /\ reqs[r].kind = "deleteUser" /\ reqs[r].pc = "userDelete"
    /\ IF reqs[r].id \notin DOMAIN users
         THEN Respond(r, 404) /\ UNCHANGED <<users, hist>>
         ELSE /\ users' = [u \in DOMAIN users \ {reqs[r].id} |-> users[u]]
              /\ hist' = [hist EXCEPT !.deleted = @ \cup {reqs[r].id}]
              /\ Respond(r, 200)
    /\ UNCHANGED <<products, orders, served>>

---------------------------------------------------------------------------
(* PUT /api/admin/user/:id/role *)

Roles == {"admin", "user", "seller"}

\* authenticate, isAdmin, and the check of req.body.role, which runs before
\* the handler's first await
SetRoleStart(r, token, id, role) ==
    /\ CanStart(r)
    /\ IF ~authenticate(token)
         THEN Rejected(r, "setRole", token, id, role, 401)
       ELSE IF ~isAdmin(token)
         THEN Rejected(r, "setRole", token, id, role, 403)
       ELSE IF role \notin Roles
         THEN reqs' = [reqs EXCEPT ![r] =
                [Started(r, "setRole", token, id, role)
                    EXCEPT !.pc = "done", !.res = 400,
                           !.message = "Invalid role. Must be admin, user, or seller"]]
       ELSE reqs' = [reqs EXCEPT ![r] =
                [Started(r, "setRole", token, id, role) EXCEPT !.pc = "roleUpdate"]]
    /\ served' = served + 1
    /\ UNCHANGED <<users, products, orders, hist>>

\* User.findByIdAndUpdate(req.params.id, {role}, {new: true})
SetRole(r) ==
    /\ reqs[r].kind = "setRole" /\ reqs[r].pc = "roleUpdate"
    /\ IF reqs[r].id \notin DOMAIN users
         THEN Respond3(r, 404, "User not found") /\ UNCHANGED users
         ELSE /\ users' = [users EXCEPT ![reqs[r].id].role = reqs[r].body]
              /\ Respond3(r, 200, "User role updated successfully")
    /\ UNCHANGED <<products, orders, served, hist>>

---------------------------------------------------------------------------
(* GET /api/seller/profile, POST /api/seller/addproduct, GET /api/seller/myproducts *)

\* the handler answers from req.user, with no storage call of its own
SellerProfileGet(r, token) ==
    /\ CanStart(r)
    /\ IF ~authenticate(token)
         THEN Rejected(r, "sellerGetProfile", token, 0, <<>>, 401)
       ELSE IF ~isAdminOrSeller(token)
         THEN Rejected(r, "sellerGetProfile", token, 0, <<>>, 403)
       ELSE reqs' = [reqs EXCEPT ![r] =
                [Started(r, "sellerGetProfile", token, 0, <<>>)
                    EXCEPT !.pc = "done", !.res = 200,
                           !.out = [email |-> users[token].email,
                                    role |-> users[token].role]]]
    /\ served' = served + 1
    /\ UNCHANGED <<users, products, orders, hist>>

\* the id of the product the k-th request of a run adds
NewProductId(k) == "q" \o ToString(k)

AddProductStart(r, token, body) ==
    /\ CanStart(r)
    /\ IF ~authenticate(token)
         THEN Rejected(r, "addProduct", token, 0, body, 401)
       ELSE IF ~isAdminOrSeller(token)
         THEN Rejected(r, "addProduct", token, 0, body, 403)
       ELSE reqs' = [reqs EXCEPT ![r] =
                [Started(r, "addProduct", token, 0, body)
                    EXCEPT !.pc = "productSave", !.i = served + 1]]
    /\ served' = served + 1
    /\ UNCHANGED <<users, products, orders, hist>>

\* new Product(req.body), product.save()
AddProduct(r) ==
    /\ reqs[r].kind = "addProduct" /\ reqs[r].pc = "productSave"
    /\ LET id == NewProductId(reqs[r].i) IN
       /\ products' = [p \in DOMAIN products \cup {id} |->
                        IF p = id THEN reqs[r].body ELSE products[p]]
       /\ reqs' = [reqs EXCEPT ![r].pc = "done", ![r].res = 201,
                               ![r].message = "Product added successfully",
                               ![r].out = id]
    /\ UNCHANGED <<users, orders, served, hist>>

MyProductsStart(r, token) ==
    /\ CanStart(r)
    /\ IF ~authenticate(token)
         THEN Rejected(r, "myProducts", token, 0, <<>>, 401)
       ELSE IF ~isAdminOrSeller(token)
         THEN Rejected(r, "myProducts", token, 0, <<>>, 403)
       ELSE reqs' = [reqs EXCEPT ![r] =
                [Started(r, "myProducts", token, 0, <<>>) EXCEPT !.pc = "findAll"]]
    /\ served' = served + 1
    /\ UNCHANGED <<users, products, orders, hist>>

\* Product.find(): every product of the catalog
MyProducts(r) ==
    /\ reqs[r].kind = "myProducts" /\ reqs[r].pc = "findAll"
    /\ reqs' = [reqs EXCEPT ![r].pc = "done", ![r].res = 200,
                    ![r].out = [count |-> Cardinality(DOMAIN products),
                                products |-> DOMAIN products]]
    /\ UNCHANGED <<users, products, orders, served, hist>>

---------------------------------------------------------------------------
(* GET /api/user/orders, GET /api/user/order/:id *)

RECURSIVE Descending(_)
\* the numbers of a set, largest first
Descending(S) ==
    IF S = {} THEN <<>>
    ELSE LET m == CHOOSE x \in S : \A y \in S : y <= x
         IN  <<m>> \o Descending(S \ {m})

ListOrdersStart(r, token) ==
    /\ CanStart(r)
    /\ IF ~authenticate(token)
         THEN Rejected(r, "listOrders", token, 0, <<>>, 401)
       ELSE reqs' = [reqs EXCEPT ![r] =
                [Started(r, "listOrders", token, 0, <<>>) EXCEPT !.pc = "findOrders"]]
    /\ served' = served + 1
    /\ UNCHANGED <<users, products, orders, hist>>

\* ListOrders with no userId in the filter
ListOrdersAll(r) ==
    /\ reqs[r].kind = "listOrders" /\ reqs[r].pc = "findOrders"
    /\ LET ids == Descending(DOMAIN orders) IN
       reqs' = [reqs EXCEPT ![r].pc = "done", ![r].res = 200,
                    ![r].out = [k \in 1..Len(ids) |->
                                  [id |-> ids[k], order |-> orders[ids[k]]]]]
    /\ UNCHANGED <<users, products, orders, served, hist>>

\* Order.find({userId: req.user._id}).sort({createdAt: -1}): the caller's
\* orders, the latest first
ListOrders(r) ==
    /\ reqs[r].kind = "listOrders" /\ reqs[r].pc = "findOrders"
    /\ LET ids == Descending({o \in DOMAIN orders :
                                orders[o].userId = reqs[r].user})
       IN
       reqs' = [reqs EXCEPT ![r].pc = "done", ![r].res = 200,
                    ![r].out = [k \in 1..Len(ids) |->
                                  [id |-> ids[k], order |-> orders[ids[k]]]]]
    /\ UNCHANGED <<users, products, orders, served, hist>>

GetOrderStart(r, token, id) ==
    /\ CanStart(r)
    /\ IF ~authenticate(token)
         THEN Rejected(r, "getOrder", token, id, <<>>, 401)
       ELSE reqs' = [reqs EXCEPT ![r] =
                [Started(r, "getOrder", token, id, <<>>) EXCEPT !.pc = "findOrder"]]
    /\ served' = served + 1
    /\ UNCHANGED <<users, products, orders, hist>>

\* Order.findOne({_id: req.params.id, userId: req.user._id}), 404 or the order
GetOrder(r) ==
    /\ reqs[r].kind = "getOrder" /\ reqs[r].pc = "findOrder"
    /\ IF reqs[r].id \notin DOMAIN orders
          \/ orders[reqs[r].id].userId # reqs[r].user
         THEN Respond(r, 404)
         ELSE reqs' = [reqs EXCEPT ![r].pc = "done", ![r].res = 200,
                                   ![r].out = orders[reqs[r].id]]
    /\ UNCHANGED <<users, products, orders, served, hist>>

---------------------------------------------------------------------------
(* GET /api/search *)

\* the k-th character of a string
Char(s, k) == SubSeq(s, k, k)

\* the letter folding of $options: 'i', over the letters the inputs use
Fold(c) ==
    CASE c = "A" -> "a"
      [] c = "B" -> "b"
      [] c = "R" -> "r"
      [] OTHER -> c

\* a pattern the regular-expression engine refuses: a group that is opened
\* and not closed
RegexInvalid(pattern) == \E k \in 1..Len(pattern) : Char(pattern, k) = "("

\* one position of a pattern against one character: "." stands for any
\* character, a letter for itself in either case
CharMatches(p, c) == p = "." \/ Fold(p) = Fold(c)

\* { $regex: pattern, $options: 'i' }: the pattern, which is not anchored,
\* matches somewhere in s
RegexMatches(pattern, s) ==
    \E k \in 0..(Len(s) - Len(pattern)) :
        \A j \in 1..Len(pattern) : CharMatches(Char(pattern, j), Char(s, k + j))

\* Number(string) of a query parameter, as the set of its value: empty for NaN
Number(s) ==
    CASE s = "2" -> {2}
      [] s = "3" -> {3}
      [] OTHER -> {}

\* price: { $gte: n } and price: { $lte: n }; no price compares with NaN
Gte(price, n) == \E v \in n : price >= v
Lte(price, n) == \E v \in n : price <= v

\* a query parameter that is missing or empty is falsy
Supplied(param) == param # ""

\* the filter the handler builds from req.query
SearchFilter(query, product) ==
    /\ Supplied(query.name) => RegexMatches(query.name, product.name)
    /\ Supplied(query.minPrice) => Gte(product.price, Number(query.minPrice))
    /\ Supplied(query.maxPrice) => Lte(product.price, Number(query.maxPrice))
    /\ Supplied(query.color) => RegexMatches(query.color, product.color)

SearchStart(r, query) ==
    /\ CanStart(r)
    /\ reqs' = [reqs EXCEPT ![r] =
            [Started(r, "search", NoToken, 0, query) EXCEPT !.pc = "findProducts"]]
    /\ served' = served + 1
    /\ UNCHANGED <<users, products, orders, hist>>

\* Product.find(filter); the storage rejects a filter whose pattern does not
\* compile and the catch answers 500
Search(r) ==
    /\ reqs[r].kind = "search" /\ reqs[r].pc = "findProducts"
    /\ LET query == reqs[r].body
           found == {p \in DOMAIN products : SearchFilter(query, products[p])}
       IN
       IF \/ Supplied(query.name) /\ RegexInvalid(query.name)
          \/ Supplied(query.color) /\ RegexInvalid(query.color)
         THEN Respond3(r, 500, "Error searching products")
         ELSE reqs' = [reqs EXCEPT ![r].pc = "done", ![r].res = 200,
                           ![r].out = [count |-> Cardinality(found),
                                       products |-> found]]
    /\ UNCHANGED <<users, products, orders, served, hist>>

---------------------------------------------------------------------------
(* Inputs *)

Quantities == {1, 2}
PositiveQuantities == {1, 2}

Lines(Q) == [productId : AnyProductId, quantity : Q]

\* request bodies of /buy: with a line list of 0..MaxLines lines, or without one
BuyBodies(Q) == {[products |-> c, shippingAddress |-> "a"] : c \in SeqsUpTo(Lines(Q), MaxLines)}
                    \cup {[shippingAddress |-> "a"]}

OrderIds == 1..MaxReqs

StatusInputs == Statuses \cup {"refunded"}

ProductBodies == {[name |-> "renamed", price |-> 5], [quantity |-> 1]}

\* the accounts registered at the start: each under its own email, with the
\* hash of InitPassword
InitUsers ==
    [u \in UserIds |-> [role |-> TokenRole(u),
                        email |-> u \o "@x",
                        password |-> bcryptHash(InitPassword, "sA")]]

InitPrice(p) == IF p = "p1" THEN 2 ELSE 3

InitStock(p) == IF p = "p1" THEN MaxStock ELSE 1

-------------------------------------------------------------------------------------------------------------------------------------------------
(* The system *)

InitCatalog(stock) ==
    [p \in ProductIds |-> [name |-> p, price |-> InitPrice(p), quantity |-> stock[p]]]

\* the state once the accounts are registered and the catalog is filled
InitWith(stock) ==
    /\ users = InitUsers
    /\ products = InitCatalog(stock)
    /\ orders = <<>>
    /\ reqs = [r \in ReqIds |-> IdleReq]
    /\ served = 0
    /\ hist = History(stock)

Init == InitWith([p \in ProductIds |-> InitStock(p)])

\* no request is being handled
Quiet == \A q \in ReqIds : reqs[q].pc = "idle"

\* the steps of the handlers after their first
BuySteps ==
    \/ \E r \in ReqIds : BuyFind(r)
    \/ \E r \in ReqIds : BuyUpdate(r)
    \/ \E r \in ReqIds : BuySave(r)

CancelSteps ==
    \/ \E r \in ReqIds : CancelFind(r)
    \/ \E r \in ReqIds : CancelInc(r)
    \/ \E r \in ReqIds : CancelSave(r)

StaffSteps ==
    \/ \E r \in ReqIds : SetStatusUpdate(r)
    \/ \E r \in ReqIds : ProductUpdate(r)
    \/ \E r \in ReqIds : ProductDelete(r)

\* requests handled one at a time, each to its response
Next ==
    \/ \E r \in ReqIds, t \in BuyerTokens, b \in BuyBodies(Quantities) :
            Quiet /\ BuyStart(r, t, b)
    \/ \E r \in ReqIds, t \in BuyerTokens, id \in OrderIds :
            Quiet /\ CancelStart(r, t, id)
    \/ \E r \in ReqIds, t \in StaffTokens, id \in OrderIds, s \in StatusInputs :
            Quiet /\ SetStatusStart(r, t, id, s)
    \/ \E r \in ReqIds, t \in StaffTokens, a \in BOOLEAN, id \in AnyProductId,
          b \in ProductBodies :
            Quiet /\ ProductUpdateStart(r, t, a, id, b)
    \/ \E r \in ReqIds, t \in StaffTokens, id \in AnyProductId :
            Quiet /\ ProductDeleteStart(r, t, id)
    \/ BuySteps
    \/ CancelSteps
    \/ StaffSteps
    \/ \E r \in ReqIds : Finish(r)

Spec == Init /\ [][Next]_vars

(* Overlapping requests.  The inputs are fewer than under Spec: one product *)
(* is bought, one unit a line.                                              *)
RaceBodies == {[products |-> c, shippingAddress |-> "a"] :
                c \in SeqsUpTo([productId : {"p1"}, quantity : {1}], MaxLines) \ {<<>>}}
RaceTokens == {"u1", "u2"}
RaceOrderIds == 1..2
RaceStaffTokens == {"a1", "u1"}
RaceStatusInputs == {"pending", "shipped", "cancelled"}

\* every handler, any interleaving of their steps
NextConc ==
    \/ \E r \in ReqIds, t \in RaceTokens, b \in RaceBodies : BuyStart(r, t, b)
    \/ \E r \in ReqIds, t \in RaceTokens, id \in RaceOrderIds : CancelStart(r, t, id)
    \/ \E r \in ReqIds, t \in RaceStaffTokens, id \in RaceOrderIds,
          s \in RaceStatusInputs : SetStatusStart(r, t, id, s)
    \/ \E r \in ReqIds, b \in ProductBodies :
            ProductUpdateStart(r, "a1", TRUE, "p1", b)
    \/ \E r \in ReqIds : ProductDeleteStart(r, "a1", "p1")
    \/ BuySteps
    \/ CancelSteps
    \/ StaffSteps
    \/ \E r \in ReqIds : Finish(r)

SpecConc == Init /\ [][NextConc]_vars

\* the products created with any one quantity from 0 to MaxStock
InitAnyStock == \E q \in 0..MaxStock : InitWith([p \in ProductIds |-> q])

\* carts of one product, with quantities >= 1
StockBodies == {[products |-> c, shippingAddress |-> "a"] :
                c \in SeqsUpTo([productId : {"p1"}, quantity : PositiveQuantities],
                               MaxLines) \ {<<>>}}

\* /buy and /cancel calls with quantities >= 1, any interleaving of their steps
NextBuyCancel ==
    \/ \E r \in ReqIds, b \in StockBodies : BuyStart(r, "u1", b)
    \/ \E r \in ReqIds, id \in RaceOrderIds : CancelStart(r, "u1", id)
    \/ BuySteps
    \/ CancelSteps
    \/ \E r \in ReqIds : Finish(r)

SpecBuyCancel == InitAnyStock /\ [][NextBuyCancel]_vars

\* /buy calls with quantities >= 1, any interleaving of their steps
NextBuy ==
    \/ \E r \in ReqIds, b \in StockBodies : BuyStart(r, "u1", b)
    \/ BuySteps
    \/ \E r \in ReqIds : Finish(r)

SpecBuy == InitAnyStock /\ [][NextBuy]_vars

---------------------------------------------------------------------------
(* Account management *)

\* "U1@x" differs from the email of u1 in letter case only; no account is
\* registered under "new@x" at the start
AccountEmails == {"u1@x", "U1@x", "new@x"}

RegisterBodies == [email : AccountEmails, password : {"pw1", NotAString}]

ProfileBodies == [email : {"s1@x", "new@x"}]

ProfileTokens == {"u1", "s1", "n1"}

AccountSteps ==
    \/ \E r \in ReqIds : RegisterFind(r)
    \/ \E r \in ReqIds : RegisterSave(r)
    \/ \E r \in ReqIds : ProfileUpdate(r)

\* account creation and profile edits, one request at a time
NextAccounts ==
    \/ \E r \in ReqIds, k \in RegisterRoutes, b \in RegisterBodies :
            Quiet /\ RegisterStart(r, k, b)
    \/ \E r \in ReqIds, t \in ProfileTokens, a \in BOOLEAN, b \in ProfileBodies :
            Quiet /\ ProfileStart(r, t, a, b)
    \/ AccountSteps
    \/ \E r \in ReqIds : Finish(r)

SpecAccounts == Init /\ [][NextAccounts]_vars

\* account creation and profile edits, any interleaving of their steps
NextAccountsConc ==
    \/ \E r \in ReqIds, k \in RegisterRoutes :
            RegisterStart(r, k, [email |-> "new@x", password |-> "pw1"])
    \/ \E r \in ReqIds, t \in ProfileTokens, a \in BOOLEAN, b \in ProfileBodies :
            ProfileStart(r, t, a, b)
    \/ AccountSteps
    \/ \E r \in ReqIds : Finish(r)

SpecAccountsConc == Init /\ [][NextAccountsConc]_vars

---------------------------------------------------------------------------
(* The protected routes, tried with every kind of token *)

\* "u2" and "a1" are accounts an admin may delete meanwhile
AccessTokens == {"u1", "u2", "s1", "a1", NoToken} \cup BadTokens

AccessCart == [products |-> <<[productId |-> "p1", quantity |-> 1]>>,
               shippingAddress |-> "a"]

AccessSteps ==
    \/ \E r \in ReqIds : ProfileUpdate(r)
    \/ \E r \in ReqIds : ChangePasswordUpdate(r)
    \/ \E r \in ReqIds : DeleteUser(r)
    \/ \E r \in ReqIds : ListOrders(r)
    \/ \E r \in ReqIds : GetOrder(r)

\* every protected route of the model, one request at a time
NextAccess ==
    \/ \E r \in ReqIds, t \in AccessTokens : Quiet /\ BuyStart(r, t, AccessCart)
    \/ \E r \in ReqIds, t \in AccessTokens : Quiet /\ CancelStart(r, t, 1)
    \/ \E r \in ReqIds, t \in AccessTokens : Quiet /\ ListOrdersStart(r, t)
    \/ \E r \in ReqIds, t \in AccessTokens : Quiet /\ GetOrderStart(r, t, 1)
    \/ \E r \in ReqIds, t \in AccessTokens, a \in BOOLEAN :
            Quiet /\ ProfileStart(r, t, a, [email |-> "new@x"])
    \/ \E r \in ReqIds, t \in AccessTokens :
            Quiet /\ ChangePasswordStart(r, t,
                        [currentPassword |-> InitPassword, newPassword |-> "pw2"])
    \/ \E r \in ReqIds, t \in AccessTokens, id \in {"u2", "a1"} :
            Quiet /\ DeleteUserStart(r, t, id)
    \/ \E r \in ReqIds, t \in AccessTokens :
            Quiet /\ SetStatusStart(r, t, 1, "shipped")
    \/ \E r \in ReqIds, t \in AccessTokens, a \in BOOLEAN :
            Quiet /\ ProductUpdateStart(r, t, a, "p1", [quantity |-> 1])
    \/ \E r \in ReqIds, t \in AccessTokens : Quiet /\ ProductDeleteStart(r, t, "p1")
    \/ BuySteps
    \/ CancelSteps
    \/ StaffSteps
    \/ AccessSteps
    \/ \E r \in ReqIds : Finish(r)

SpecAccess == Init /\ [][NextAccess]_vars

---------------------------------------------------------------------------
(* Passwords and logins *)

\* "long" and "longer" agree on their first 72 bytes
Passwords == {"pw1", "pw2", "long", "longer", NotAString}

\* the emails of a user, a seller and an admin, of the account a run may
\* register, and of no account
LoginEmails == {"u1@x", "s1@x", "a1@x", "new@x", "none@x"}

LoginBodies == [email : LoginEmails, password : Passwords]

PasswordBodies == [currentPassword : Passwords, newPassword : Passwords]

PasswordTokens == {"u1", "n1"}

LoginSteps ==
    \/ \E r \in ReqIds : RegisterFind(r)
    \/ \E r \in ReqIds : RegisterSave(r)
    \/ \E r \in ReqIds : LoginFind(r)
    \/ \E r \in ReqIds : ChangePasswordUpdate(r)

\* registration, password changes and logins, one request at a time
NextLogin ==
    \/ \E r \in ReqIds, p \in Passwords :
            Quiet /\ RegisterStart(r, "register", [email |-> "new@x", password |-> p])
    \/ \E r \in ReqIds, k \in LoginRoutes, b \in LoginBodies :
            Quiet /\ LoginStart(r, k, b)
    \/ \E r \in ReqIds, t \in PasswordTokens, b \in PasswordBodies :
            Quiet /\ ChangePasswordStart(r, t, b)
    \/ LoginSteps
    \/ \E r \in ReqIds : Finish(r)

SpecLogin == Init /\ [][NextLogin]_vars

---------------------------------------------------------------------------
(* Search over every small catalog *)

SearchNames == {"ab", "a.b", "B"}
SearchColors == {"r", "g"}
SearchPrices == {2, 3}

SearchProducts ==
    [name : SearchNames, price : SearchPrices, color : SearchColors, quantity : {1}]

\* the query strings: a parameter left out, letters in either case, a dot, an
\* open parenthesis; numbers and a word for the price bounds
SearchQueries ==
    [name : {"", "a", "b", ".", "("}, color : {"", "R", "."},
     minPrice : {"", "2", "3", "x"}, maxPrice : {"", "2", "3"}]

InitSearch ==
    /\ users = InitUsers
    /\ products \in [ProductIds -> SearchProducts]
    /\ orders = <<>>
    /\ reqs = [r \in ReqIds |-> IdleReq]
    /\ served = 0
    /\ hist = History([p \in ProductIds |-> 1])

NextSearch ==
    \/ \E r \in ReqIds, q \in SearchQueries : Quiet /\ SearchStart(r, q)
    \/ \E r \in ReqIds : Search(r)
    \/ \E r \in ReqIds : Finish(r)

SpecSearch == InitSearch /\ [][NextSearch]_vars

---------------------------------------------------------------------------
(* Two buyers and their orders *)

OwnerTokens == {"u1", "u2"}

\* carts of one unit of one product
OwnerBodies == {[products |-> <<[productId |-> p, quantity |-> 1]>>,
                 shippingAddress |-> "a"] : p \in ProductIds}

\* /buy, /orders, /order/:id and /order/:id/cancel by two users, one request
\* at a time
NextOwn ==
    \/ \E r \in ReqIds, t \in OwnerTokens, b \in OwnerBodies :
            Quiet /\ BuyStart(r, t, b)
    \/ \E r \in ReqIds, t \in OwnerTokens : Quiet /\ ListOrdersStart(r, t)
    \/ \E r \in ReqIds, t \in OwnerTokens, id \in OrderIds :
            Quiet /\ GetOrderStart(r, t, id)
    \/ \E r \in ReqIds, t \in OwnerTokens, id \in OrderIds :
            Quiet /\ CancelStart(r, t, id)
    \/ BuySteps
    \/ CancelSteps
    \/ \E r \in ReqIds : ListOrders(r)
    \/ \E r \in ReqIds : GetOrder(r)
    \/ \E r \in ReqIds : Finish(r)

SpecOwn == Init /\ [][NextOwn]_vars

---------------------------------------------------------------------------
(* Roles: an admin reassigns them while the other routes are in use *)

\* "root" is no role; "uX" is a well-formed id of no account
RoleInputs == Roles \cup {"root"}
RoleTargets == {"u1", "a1", "uX"}
RoleTokens == {"a1", "u1", NoToken}

\* a profile body that names a role next to the fields the handler reads
RoleProfileBody == [email |-> "new@x", role |-> "admin"]

RoleSteps ==
    \/ \E r \in ReqIds : SetRole(r)
    \/ \E r \in ReqIds : ProfileUpdate(r)
    \/ \E r \in ReqIds : ChangePasswordUpdate(r)
    \/ \E r \in ReqIds : LoginFind(r)

\* role assignment among the other routes, one request at a time
NextRoles ==
    \/ \E r \in ReqIds, t \in RoleTokens, id \in RoleTargets, role \in RoleInputs :
            Quiet /\ SetRoleStart(r, t, id, role)
    \/ \E r \in ReqIds, t \in {"a1", "u1"}, a \in BOOLEAN :
            Quiet /\ ProfileStart(r, t, a, RoleProfileBody)
    \/ \E r \in ReqIds :
            Quiet /\ ChangePasswordStart(r, "u1",
                        [currentPassword |-> InitPassword, newPassword |-> "pw2"])
    \/ \E r \in ReqIds, k \in LoginRoutes :
            Quiet /\ LoginStart(r, k, [email |-> "u1@x", password |-> InitPassword])
    \/ \E r \in ReqIds : Quiet /\ BuyStart(r, "u1", AccessCart)
    \/ \E r \in ReqIds : Quiet /\ CancelStart(r, "u1", 1)
    \/ \E r \in ReqIds, t \in {"a1", "u1"} : Quiet /\ SetStatusStart(r, t, 1, "shipped")
    \/ \E r \in ReqIds, t \in {"a1", "u1"}, a \in BOOLEAN :
            Quiet /\ ProductUpdateStart(r, t, a, "p1", [quantity |-> 1])
    \/ \E r \in ReqIds, t \in {"a1", "u1"} : Quiet /\ ProductDeleteStart(r, t, "p1")
    \/ BuySteps
    \/ CancelSteps
    \/ StaffSteps
    \/ RoleSteps
    \/ \E r \in ReqIds : Finish(r)

SpecRoles == Init /\ [][NextRoles]_vars

---------------------------------------------------------------------------
(* The seller routes, called by a seller, an admin, a user and nobody *)

SellerTokens == {"s1", "a1", "u1", NoToken}

NewProductBody == [name |-> "new", price |-> 4, quantity |-> 1]

SellerSteps ==
    \/ \E r \in ReqIds : ProfileUpdate(r)
    \/ \E r \in ReqIds : AddProduct(r)
    \/ \E r \in ReqIds : MyProducts(r)
    \/ \E r \in ReqIds : ProductUpdate(r)

NextSeller ==
    \/ \E r \in ReqIds, t \in SellerTokens : Quiet /\ SellerProfileGet(r, t)
    \/ \E r \in ReqIds, t \in SellerTokens :
            Quiet /\ ProfileStart(r, t, TRUE, [email |-> "new@x"])
    \/ \E r \in ReqIds, t \in SellerTokens : Quiet /\ AddProductStart(r, t, NewProductBody)
    \/ \E r \in ReqIds, t \in SellerTokens : Quiet /\ MyProductsStart(r, t)
    \/ \E r \in ReqIds, t \in SellerTokens, id \in {"p1", "pX"}, b \in ProductBodies :
            Quiet /\ ProductUpdateStart(r, t, FALSE, id, b)
    \/ SellerSteps
    \/ \E r \in ReqIds : Finish(r)

SpecSeller == Init /\ [][NextSeller]_vars

---------------------------------------------------------------------------
(* Carts with quantities of either sign *)

SignedQuantities == {-1, 0, 1}

SignedBodies == {[products |-> c, shippingAddress |-> "a"] :
                 c \in SeqsUpTo([productId : {"p1"}, quantity : SignedQuantities],
                                MaxLines) \ {<<>>}}

\* /buy calls with quantities below, at and above zero, one request at a time
NextSigned ==
    \/ \E r \in ReqIds, b \in SignedBodies : Quiet /\ BuyStart(r, "u1", b)
    \/ BuySteps
    \/ \E r \in ReqIds : Finish(r)

SpecSigned == Init /\ [][NextSigned]_vars

---------------------------------------------------------------------------
(* Callers who hold no token of an admin *)

\* the callers know the password of user u1 and choose that of the accounts
\* they create
OutsiderLogins == [email : {"u1@x", "new@x"}, password : {InitPassword}]

\* the tokens the callers can send: those their logins were issued, or none
OutsiderTokens == hist.issued \cup {NoToken}

OutsiderSteps ==
    \/ \E r \in ReqIds : RegisterFind(r)
    \/ \E r \in ReqIds : RegisterSave(r)
    \/ \E r \in ReqIds : LoginFind(r)
    \/ \E r \in ReqIds : DeleteUser(r)
    \/ \E r \in ReqIds : SetRole(r)

\* account creation, login and the admin routes, one request at a time
NextOutsider ==
    \/ \E r \in ReqIds, k \in RegisterRoutes :
            Quiet /\ RegisterStart(r, k, [email |-> "new@x", password |-> InitPassword])
    \/ \E r \in ReqIds, k \in LoginRoutes, b \in OutsiderLogins :
            Quiet /\ LoginStart(r, k, b)
    \/ \E r \in ReqIds, t \in OutsiderTokens : Quiet /\ DeleteUserStart(r, t, "u2")
    \/ \E r \in ReqIds, t \in OutsiderTokens : Quiet /\ SetRoleStart(r, t, "u1", "admin")
    \/ \E r \in ReqIds, t \in OutsiderTokens : Quiet /\ SetStatusStart(r, t, 1, "shipped")
    \/ \E r \in ReqIds, t \in OutsiderTokens : Quiet /\ ProductDeleteStart(r, t, "p1")
    \/ \E r \in ReqIds, t \in OutsiderTokens, a \in BOOLEAN :
            Quiet /\ ProductUpdateStart(r, t, a, "p1", [quantity |-> 1])
    \/ OutsiderSteps
    \/ StaffSteps
    \/ \E r \in ReqIds : Finish(r)

SpecOutsider == Init /\ [][NextOutsider]_vars

---------------------------------------------------------------------------
(* Properties of one call, read off its response.  Under Spec the calls do  *)
(* not overlap, so the stores of the state in which a request is "done" are *)
(* the stores as that call left them, and reqs[r].pre the stores as it      *)
(* found them.                                                              *)

\* request r is a finished /buy call of an authenticated account with a cart
DoneBuy(r) ==
    /\ reqs[r].kind = "buy" /\ reqs[r].pc = "done"
    /\ authenticate(reqs[r].user)
    /\ "products" \in DOMAIN reqs[r].body
    /\ Len(reqs[r].body.products) > 0

Cart(r) == reqs[r].body.products

\* every line names a product of the catalog as the call found it
LinesExist(r) ==
    \A k \in 1..Len(Cart(r)) : Cart(r)[k].productId \in DOMAIN reqs[r].pre.products

\* every line asks for no more than the stock the call found
EachLineInStock(r) ==
    \A k \in 1..Len(Cart(r)) :
        Cart(r)[k].quantity <= reqs[r].pre.products[Cart(r)[k].productId].quantity

\* every line asks for no more than the stock the call found less what the
\* earlier lines of the cart ask of the same product
EachLineInRemainingStock(r) ==
    \A k \in 1..Len(Cart(r)) :
        LET p == Cart(r)[k].productId IN
        Cart(r)[k].quantity <=
            reqs[r].pre.products[p].quantity - Requested(Cart(r), p, k - 1)

\* the order of the cart exists, totals its lines, and the stock went down by
\* what the cart asks of each product
BuyFulfilled(r) ==
    /\ reqs[r].res = 201
    /\ reqs[r].id \in DOMAIN orders
    /\ reqs[r].id \notin DOMAIN reqs[r].pre.orders
    /\ LET o == orders[reqs[r].id]
           was == reqs[r].pre.products
       IN  /\ Len(o.products) = Len(Cart(r))
           /\ \A k \in 1..Len(Cart(r)) :
                o.products[k] =
                    [productId |-> Cart(r)[k].productId,
                     name |-> was[Cart(r)[k].productId].name,
                     price |-> was[Cart(r)[k].productId].price,
                     quantity |-> Cart(r)[k].quantity]
           /\ o.totalAmount = SumAmount(o.products)
           /\ o.userId = reqs[r].user
    /\ \A p \in DOMAIN reqs[r].pre.products :
            /\ p \in DOMAIN products
            /\ products[p].quantity =
                 reqs[r].pre.products[p].quantity - RequestedAll(Cart(r), p)

\* C1 as stated: a /buy call each of whose lines asks for no more than the
\* stock on hand when the call starts creates an order that totals its lines,
\* and lowers each product's stock by what was asked of it.
C1_EveryLineInStock ==
    \A r \in ReqIds :
        DoneBuy(r) /\ LinesExist(r) /\ EachLineInStock(r) => BuyFulfilled(r)

\* C1 amended: a /buy call each of whose lines asks for no more than the stock
\* on hand when the call starts less what the earlier lines of the same cart
\* ask of that product creates an order that totals its lines (price x
\* quantity at call time), and lowers each product's stock by exactly what the
\* cart asks of it.
C1_BuyWithinRemainingStock ==
    \A r \in ReqIds :
        DoneBuy(r) /\ LinesExist(r) /\ EachLineInRemainingStock(r) => BuyFulfilled(r)

\* a cart naming one product in two lines was bought
C1_Witness ==
    \E r \in ReqIds :
        /\ DoneBuy(r) /\ reqs[r].res = 201
        /\ Len(Cart(r)) = 2
        /\ Cart(r)[1].productId = Cart(r)[2].productId
        /\ orders[reqs[r].id].totalAmount > 0

DoneCancel(r) ==
    /\ reqs[r].kind = "cancel" /\ reqs[r].pc = "done"
    /\ authenticate(reqs[r].user)

\* the call found the order, owned by the caller
OwnOrder(r) ==
    /\ reqs[r].id \in DOMAIN reqs[r].pre.orders
    /\ reqs[r].pre.orders[reqs[r].id].userId = reqs[r].user

FoundStatus(r) == reqs[r].pre.orders[reqs[r].id].status

\* C2: cancelling a pending order raises each product's stock by the
\* quantity of the order's lines of that product and sets the status to
\* cancelled; and where the call finds a product as the /buy call that placed
\* the order left it, it leaves the stock as it was before that /buy call.
C2_CancelRestoresStock ==
    \A r \in ReqIds :
        DoneCancel(r) /\ OwnOrder(r) /\ FoundStatus(r) = "pending" =>
            LET id == reqs[r].id
                was == reqs[r].pre.products
                buy == hist.atBuy[id]
            IN  /\ reqs[r].res = 200
                /\ orders[id].status = "cancelled"
                /\ \A p \in DOMAIN was :
                        /\ p \in DOMAIN products
                        /\ products[p].quantity =
                             was[p].quantity + RequestedAll(orders[id].products, p)
                /\ \A p \in DOMAIN buy.before :
                        (p \in DOMAIN buy.after /\ p \in DOMAIN was
                            /\ was[p] = buy.after[p])
                        => products[p].quantity = buy.before[p].quantity

\* a cancel gave back the stock its order had taken
C2_Witness ==
    \E r \in ReqIds :
        /\ DoneCancel(r) /\ reqs[r].res = 200
        /\ \E p \in DOMAIN products :
                /\ p \in DOMAIN reqs[r].pre.products
                /\ reqs[r].pre.products[p] = hist.atBuy[reqs[r].id].after[p]
                /\ products[p].quantity > reqs[r].pre.products[p].quantity
                /\ products[p].quantity = hist.atBuy[reqs[r].id].before[p].quantity

\* C5: a /buy call that fails creates no order.
C5_FailedBuyCreatesNoOrder ==
    \A r \in ReqIds :
        reqs[r].kind = "buy" /\ reqs[r].pc = "done" /\ reqs[r].res # 201
            => orders = reqs[r].pre.orders

\* a call failed on its second line for want of stock, with an order already
\* in the ledger
C5_Witness ==
    \E r \in ReqIds :
        /\ reqs[r].kind = "buy" /\ reqs[r].pc = "done"
        /\ reqs[r].res = 400 /\ reqs[r].i = 2
        /\ DOMAIN orders # {}

\* the failing line of a failed /buy call
FailedAtLine(r, k) ==
    /\ DoneBuy(r) /\ reqs[r].res \in {400, 404}
    /\ reqs[r].i = k

\* C6: when a /buy call fails on line k > 1, what lines 1..k-1 took from the
\* stock stays taken, and no order is created.
C6_EarlierDecrementsStay ==
    \A r \in ReqIds : \A k \in 2..MaxLines + 1 :
        FailedAtLine(r, k) =>
            /\ orders = reqs[r].pre.orders
            /\ \A p \in DOMAIN reqs[r].pre.products :
                    /\ p \in DOMAIN products
                    /\ products[p].quantity =
                        reqs[r].pre.products[p].quantity - Requested(Cart(r), p, k - 1)

\* a call failed on its second line and stock of its first line is gone
C6_Witness ==
    \E r \in ReqIds :
        /\ FailedAtLine(r, 2)
        /\ \E p \in DOMAIN products :
                products[p].quantity < reqs[r].pre.products[p].quantity

\* C7: the owner's cancel of an order that is not pending fails with 400 and
\* leaves the ledger and the catalog as they were.
C7_CancelNonPendingFails ==
    \A r \in ReqIds :
        DoneCancel(r) /\ OwnOrder(r) /\ FoundStatus(r) # "pending" =>
            /\ reqs[r].res = 400
            /\ orders = reqs[r].pre.orders
            /\ products = reqs[r].pre.products

\* the owner tried to cancel an order an admin had advanced
C7_Witness ==
    \E r \in ReqIds :
        /\ DoneCancel(r) /\ OwnOrder(r)
        /\ FoundStatus(r) \in {"confirmed", "shipped", "delivered"}
        /\ reqs[r].res = 400

---------------------------------------------------------------------------
(* Properties of overlapping calls *)

\* C3: under any interleaving of /buy and /cancel calls with quantities >= 1,
\* on products created with a quantity >= 0, no stock is ever negative.
C3_StockNeverNegative ==
    \A p \in DOMAIN products : products[p].quantity >= 0

\* a /buy wrote over another call's write, and an order was cancelled
C3_Witness ==
    /\ hist.lostUpdate
    /\ \E o \in DOMAIN orders : orders[o].status = "cancelled"

RECURSIVE SoldUpTo(_, _)
\* the quantity of product p in orders 1..n
SoldUpTo(n, p) ==
    IF n = 0 THEN 0
    ELSE SoldUpTo(n - 1, p) + RequestedAll(orders[n].products, p)

\* the quantity of product p in all the orders created
Sold(p) == SoldUpTo(Cardinality(DOMAIN orders), p)

\* C4: the orders /buy calls create hold more of a product than there was only
\* where a /buy has written its decrement over a quantity other than the one
\* it had checked (the witness: two overlapping calls do oversell).
C4_OversellOnlyByRace ==
    \A p \in ProductIds : Sold(p) > hist.created[p] => hist.lostUpdate

\* two /buy calls found the same stock, and their orders hold more than it
C4_Witness ==
    \E r1, r2 \in ReqIds :
        /\ r1 # r2
        /\ DoneBuy(r1) /\ reqs[r1].res = 201
        /\ DoneBuy(r2) /\ reqs[r2].res = 201
        /\ \E p \in ProductIds :
            /\ reqs[r1].pre.products[p].quantity = reqs[r2].pre.products[p].quantity
            /\ RequestedAll(orders[reqs[r1].id].products, p)
                 + RequestedAll(orders[reqs[r2].id].products, p)
                    > reqs[r1].pre.products[p].quantity

\* this step is the write of an admin's setStatus call on order o
SetStatusStepOn(o) ==
    \E r \in ReqIds :
        /\ reqs[r].kind = "setStatus" /\ reqs[r].pc = "statusUpdate"
        /\ reqs'[r].pc = "done"
        /\ reqs[r].id = o
        /\ users[reqs[r].user].role = "admin"

\* this step is the save of a cancel call on order o by its owner, which had
\* found the order pending
OwnerCancelStepOn(o) ==
    \E r \in ReqIds :
        /\ reqs[r].kind = "cancel" /\ reqs[r].pc = "saveStatus"
        /\ reqs'[r].pc = "done"
        /\ reqs[r].id = o
        /\ orders[o].userId = reqs[r].user
        /\ reqs[r].order.status = "pending"

Advanced == {"confirmed", "shipped", "delivered"}

\* a cancelled order changes status, or an advanced order returns to pending
LeavesFinalStatus(o) ==
    \/ orders[o].status = "cancelled" /\ orders'[o].status # "cancelled"
    \/ orders[o].status \in Advanced /\ orders'[o].status = "pending"

\* C8 as stated: a cancelled order never changes status again, and a
\* confirmed, shipped or delivered order never returns to pending.
C8_NoWayBack ==
    [][\A o \in DOMAIN orders : ~LeavesFinalStatus(o)]_vars

\* C8 amended: a cancelled order changes status again, and a confirmed,
\* shipped or delivered order returns to pending, only by an admin's
\* setStatus call.
C8_NoWayBackButByAdmin ==
    [][\A o \in DOMAIN orders : LeavesFinalStatus(o) => SetStatusStepOn(o)]_vars

\* an admin has set a cancelled order back to pending
C8_Witness ==
    \E r \in ReqIds :
        /\ reqs[r].kind = "setStatus" /\ reqs[r].pc = "done" /\ reqs[r].res = 200
        /\ reqs[r].body = "pending"
        /\ reqs[r].id \in DOMAIN reqs[r].pre.orders
        /\ reqs[r].pre.orders[reqs[r].id].status = "cancelled"
        /\ orders[reqs[r].id].status = "pending"

C10_OrderTotalAndLinesFixed ==
    [][/\ DOMAIN orders \subseteq DOMAIN orders'
       /\ \A o \in DOMAIN orders' :
            /\ orders'[o].totalAmount = SumAmount(orders'[o].products)
            /\ o \in DOMAIN orders =>
                /\ orders'[o].products = orders[o].products
                /\ orders'[o].totalAmount = orders[o].totalAmount]_vars

\* an order holds a line whose product has since been edited or deleted, and
\* its status has changed
C10_Witness ==
    \E o \in DOMAIN orders :
        /\ orders[o].status # "pending"
        /\ orders[o].totalAmount > 0
        /\ \E k \in 1..Len(orders[o].products) :
            LET line == orders[o].products[k] IN
            \/ line.productId \notin DOMAIN products
            \/ products[line.productId].price # line.price

---------------------------------------------------------------------------
(* Accounts *)

\* C11: in every reachable state, under any interleaving of user and seller
\* registration, admin creation and profile updates, no two accounts have
\* the same email.
C11_EmailsUnique ==
    \A u, v \in DOMAIN users : u # v => users[u].email # users[v].email

\* request r is a finished account-creation call
DoneRegister(r) == reqs[r].kind \in RegisterRoutes /\ reqs[r].pc = "done"

\* the accounts that held exactly the email of request r when it arrived
HadEmail(r) ==
    {u \in DOMAIN reqs[r].pre.users :
        reqs[r].pre.users[u].email = reqs[r].body.email}

\* C12: an account-creation call fails with 400 and creates no account when
\* an account of any role has exactly the requested email; when none has it
\* (though one may have it in another letter case) and the password is a
\* string, the call creates the account under the email as given.
C12_ConflictOnExactEmail ==
    \A r \in ReqIds :
        DoneRegister(r) =>
            /\ HadEmail(r) # {} =>
                    reqs[r].res = 400 /\ users = reqs[r].pre.users
            /\ (HadEmail(r) = {} /\ ~bcryptThrows(reqs[r].body.password)) =>
                    /\ reqs[r].res = 201
                    /\ DOMAIN users = DOMAIN reqs[r].pre.users \cup {reqs[r].out}
                    /\ reqs[r].out \notin DOMAIN reqs[r].pre.users
                    /\ users[reqs[r].out].email = reqs[r].body.email
                    /\ users[reqs[r].out].role = RegisterRole(reqs[r].kind)
                    /\ \A u \in DOMAIN reqs[r].pre.users : users[u] = reqs[r].pre.users[u]

\* the creation of an admin under the email of a user account was refused
C12_Witness ==
    \E r \in ReqIds :
        /\ DoneRegister(r) /\ reqs[r].kind = "adminCreate" /\ reqs[r].res = 400
        /\ \E u \in HadEmail(r) : reqs[r].pre.users[u].role = "user"

---------------------------------------------------------------------------
(* Access *)

\* the kinds of request whose route runs authenticate first
ProtectedKinds ==
    {"buy", "cancel", "listOrders", "getOrder", "profile", "sellerProfile",
     "changePassword", "deleteUser", "setStatus", "updateProduct",
     "adminUpdateProduct", "deleteProduct"}

\* the stores are as request r found them
StoresUntouched(r) ==
    /\ users = reqs[r].pre.users
    /\ products = reqs[r].pre.products
    /\ orders = reqs[r].pre.orders

\* the token of request r names an account an earlier call has deleted
DeletedBefore(r) ==
    /\ reqs[r].user \in hist.deleted
    /\ ~(reqs[r].kind = "deleteUser" /\ reqs[r].id = reqs[r].user
            /\ reqs[r].res = 200)

\* C13: a protected operation called with no token, with a malformed or
\* expired token, or with the token of an account an admin has deleted, fails
\* with 401 (whatever the role the token's account had) and leaves the
\* stores unchanged.
C13_NoAccountNoEntry ==
    \A r \in ReqIds :
        (/\ reqs[r].pc = "done" /\ reqs[r].kind \in ProtectedKinds
         /\ \/ reqs[r].user = NoToken
            \/ reqs[r].user \in BadTokens
            \/ DeletedBefore(r))
        => reqs[r].res = 401 /\ StoresUntouched(r)

\* the token of a deleted admin was refused with 401 on a route for admins
C13_Witness ==
    \E r \in ReqIds :
        /\ reqs[r].pc = "done" /\ reqs[r].kind = "deleteProduct"
        /\ reqs[r].user = "a1" /\ DeletedBefore(r)
        /\ reqs[r].res = 401

\* the roles the guard of a route admits
AllowedRoles(kind) ==
    IF kind \in {"updateProduct", "sellerProfile"}
      THEN {"admin", "seller"}
      ELSE {"admin"}

GuardedKinds ==
    {"sellerProfile", "deleteUser", "setStatus", "updateProduct",
     "adminUpdateProduct", "deleteProduct"}

\* C14: a route guarded by isAdmin or isAdminOrSeller answers 403 to every
\* authenticated caller whose role its guard does not admit, and changes
\* nothing; it answers 403 to no caller whose role the guard admits.
C14_RoleGuardsTotal ==
    \A r \in ReqIds :
        (/\ reqs[r].pc = "done" /\ reqs[r].kind \in GuardedKinds
         /\ reqs[r].user \in DOMAIN reqs[r].pre.users)
        => IF reqs[r].pre.users[reqs[r].user].role \in AllowedRoles(reqs[r].kind)
             THEN reqs[r].res # 403
             ELSE reqs[r].res = 403 /\ StoresUntouched(r)

\* a seller was refused the deletion of a product, and a user the edit of one
C14_Witness ==
    \E r \in ReqIds :
        /\ reqs[r].pc = "done" /\ reqs[r].res = 403
        /\ \/ reqs[r].kind = "deleteProduct" /\ reqs[r].user = "s1"
           \/ reqs[r].kind = "updateProduct" /\ reqs[r].user = "u1"
        /\ DOMAIN orders # {}

---------------------------------------------------------------------------
(* Logins and passwords.  Under SpecLogin the calls do not overlap and no    *)
(* two accounts share an email.                                             *)

\* request r is a finished login call
DoneLogin(r) == reqs[r].kind \in LoginRoutes /\ reqs[r].pc = "done"

\* the accounts that held the email of request r when it arrived
Holders(r) ==
    {u \in DOMAIN reqs[r].pre.users :
        reqs[r].pre.users[u].email = reqs[r].body.email}

\* the password sent is not one that account u's stored hash accepts
WrongPasswordFor(r, u) ==
    \/ bcryptThrows(reqs[r].body.password)
    \/ ~bcryptCompare(reqs[r].body.password, reqs[r].pre.users[u].password)

\* C15: on each login endpoint, an attempt with an email of no account and an
\* attempt with an existing email and a wrong password get the same
\* response: status 400 and the endpoint's one message.
C15_SameResponse ==
    \A r \in ReqIds :
        (DoneLogin(r) /\ \A u \in Holders(r) : WrongPasswordFor(r, u))
        => reqs[r].res = 400 /\ reqs[r].message = LoginMessage(reqs[r].kind)

\* the role a login endpoint is for
ScopeRole(route) ==
    CASE route = "login" -> "user"
      [] route = "sellerLogin" -> "seller"
      [] route = "adminLogin" -> "admin"

\* C16: a login succeeds only for an account whose role is the one its
\* endpoint is for; an account of another role gets 400 with the endpoint's
\* message.
C16_LoginWithinScope ==
    \A r \in ReqIds :
        DoneLogin(r) =>
            /\ reqs[r].res = 200 => reqs[r].out.role = ScopeRole(reqs[r].kind)
            /\ (\A u \in Holders(r) :
                    reqs[r].pre.users[u].role # ScopeRole(reqs[r].kind))
                => reqs[r].res = 400
                   /\ reqs[r].message = LoginMessage(reqs[r].kind)

\* the password account u was last given
Current(u) == hist.raw[u][Len(hist.raw[u])]

\* no account's stored password is a password it was given
NeverRaw ==
    \A u \in DOMAIN users : \A k \in 1..Len(hist.raw[u]) :
        users[u].password # hist.raw[u][k]

\* C17 as stated: the stored password is never the raw one, and a login with
\* an account's email succeeds with the password last set for it and fails
\* with every other password.
C17_OnlyLatestPassword ==
    /\ NeverRaw
    /\ \A r \in ReqIds :
        (DoneLogin(r) /\ reqs[r].kind = "login") =>
            \A u \in Holders(r) :
                IF reqs[r].body.password = Current(u)
                  THEN reqs[r].res = 200 /\ reqs[r].out.userId = u
                  ELSE reqs[r].res # 200

\* C17 amended: the stored password is never the raw one, and a login with an
\* account's email succeeds with the password last set for it, and with any
\* password that agrees with that one on its first 72 bytes, and fails with
\* every other password, the earlier passwords of the account included.
C17_OnlyLatestPasswordKey ==
    /\ NeverRaw
    /\ \A r \in ReqIds :
        (DoneLogin(r) /\ reqs[r].kind = "login") =>
            \A u \in Holders(r) :
                IF Key(reqs[r].body.password) = Key(Current(u))
                  THEN reqs[r].res = 200 /\ reqs[r].out.userId = u
                  ELSE reqs[r].res # 200

\* the account a run registered logged in after a change of its password
C17_Witness ==
    \E r \in ReqIds :
        /\ DoneLogin(r) /\ reqs[r].kind = "login" /\ reqs[r].res = 200
        /\ reqs[r].out.userId = "n1"
        /\ Len(hist.raw["n1"]) >= 2
        /\ reqs[r].body.password = Current("n1")

\* request r is a finished change-password call of an authenticated account
DoneChange(r) ==
    /\ reqs[r].kind = "changePassword" /\ reqs[r].pc = "done"
    /\ reqs[r].user \in DOMAIN reqs[r].pre.users

---------------------------------------------------------------------------
(* Search *)

\* q occurs in s as a run of consecutive characters, letter case aside
Contains(s, q) ==
    \E k \in 0..(Len(s) - Len(q)) :
        \A j \in 1..Len(q) : Fold(Char(q, j)) = Fold(Char(s, k + j))

\* the product satisfies every filter the query supplies, each read as the
\* text it is
Satisfies(query, product) ==
    /\ Supplied(query.name) => Contains(product.name, query.name)
    /\ Supplied(query.color) => Contains(product.color, query.color)
    /\ \A v \in Number(query.minPrice) : product.price >= v
    /\ \A v \in Number(query.maxPrice) : product.price <= v

\* the price bounds a query supplies are numbers
NumericBounds(query) ==
    /\ Supplied(query.minPrice) => Number(query.minPrice) # {}
    /\ Supplied(query.maxPrice) => Number(query.maxPrice) # {}

\* C19: a search returns exactly the products whose name and color contain
\* the texts asked for, letter case aside, and whose price lies within the
\* inclusive bounds; with no filter that is the whole catalog.
C19_SearchExact ==
    \A r \in ReqIds :
        (/\ reqs[r].kind = "search" /\ reqs[r].pc = "done"
         /\ NumericBounds(reqs[r].body))
        => /\ reqs[r].res = 200
           /\ reqs[r].out.products =
                {p \in DOMAIN reqs[r].pre.products :
                    Satisfies(reqs[r].body, reqs[r].pre.products[p])}

---------------------------------------------------------------------------
(* Orders of other accounts.  Under SpecOwn the calls do not overlap. *)

\* request r named an order that existed when it arrived and belonged to an
\* account other than the caller
OnAnothersOrder(r) ==
    /\ reqs[r].pc = "done"
    /\ reqs[r].id \in DOMAIN reqs[r].pre.orders
    /\ reqs[r].pre.orders[reqs[r].id].userId # reqs[r].user

\* C20: an account's order listing holds its own orders only and all of
\* them; get-order and cancel on the id of another account's order answer
\* 404, show nothing, and leave every order and every product as they were.
C20_OthersOrdersOutOfReach ==
    \A r \in ReqIds :
        /\ (reqs[r].kind = "listOrders" /\ reqs[r].pc = "done")
            => /\ reqs[r].res = 200
               /\ {reqs[r].out[k].id : k \in 1..Len(reqs[r].out)}
                    = {o \in DOMAIN reqs[r].pre.orders :
                            reqs[r].pre.orders[o].userId = reqs[r].user}
               /\ \A k \in 1..Len(reqs[r].out) :
                    reqs[r].out[k].order.userId = reqs[r].user
        /\ (reqs[r].kind \in {"getOrder", "cancel"} /\ OnAnothersOrder(r))
            => /\ reqs[r].res = 404
               /\ reqs[r].out = <<>>
               /\ orders = reqs[r].pre.orders
               /\ products = reqs[r].pre.products

\* a cancel was refused on a pending order of another account, and the
\* stock that order took stays taken
C20_Witness ==
    \E r \in ReqIds :
        /\ reqs[r].kind = "cancel" /\ OnAnothersOrder(r)
        /\ reqs[r].res = 404
        /\ orders[reqs[r].id].status = "pending"
        /\ products[orders[reqs[r].id].products[1].productId].quantity
             < InitStock(orders[reqs[r].id].products[1].productId)

---------------------------------------------------------------------------
(* Roles.  Under SpecRoles the calls do not overlap. *)

\* the step is the write of a role-assignment call that an account
\* authenticated as admin made with one of the three roles, and gives
\* account u that role
RoleAssignedTo(u) ==
    \E r \in ReqIds :
        /\ reqs[r].kind = "setRole" /\ reqs[r].pc = "roleUpdate"
        /\ reqs'[r].pc = "done" /\ reqs'[r].res = 200
        /\ reqs[r].id = u
        /\ reqs[r].body \in Roles
        /\ users'[u].role = reqs[r].body
        /\ reqs[r].pre.users[reqs[r].user].role = "admin"

\* a step that changes the role of an account is such a write
RoleStep ==
    \A u \in DOMAIN users \cap DOMAIN users' :
        users'[u].role # users[u].role => RoleAssignedTo(u)

\* an admin's role-assignment with a value that is no role got 400 and left
\* the accounts as they were
BadRoleRefused ==
    \A r \in ReqIds :
        (/\ reqs[r].kind = "setRole" /\ reqs[r].pc = "done"
         /\ reqs[r].user \in DOMAIN reqs[r].pre.users
         /\ reqs[r].pre.users[reqs[r].user].role = "admin"
         /\ reqs[r].body \notin Roles)
        => reqs[r].res = 400 /\ users = reqs[r].pre.users

\* C21: the role of an account changes only by the write of a role-assignment
\* call made by an authenticated admin with a role in {admin, user, seller};
\* every step of every other handler leaves every role as it was; and a
\* role-assignment with a value outside the set fails with 400 and changes
\* nothing.
C21_RoleOnlyByAdmin == [][RoleStep]_vars /\ []BadRoleRefused

\* an admin gave an account a role it did not have, and another admin call
\* with a value that is no role was refused
C21_Witness ==
    /\ \E u \in DOMAIN users : users[u].role # InitUsers[u].role
    /\ \E r \in ReqIds :
        /\ reqs[r].kind = "setRole" /\ reqs[r].pc = "done" /\ reqs[r].res = 400
        /\ reqs[r].body \notin Roles

---------------------------------------------------------------------------
(* Seller routes *)

\* GET and PUT /api/seller/profile, POST /api/seller/addproduct,
\* GET /api/seller/myproducts, PUT /api/seller/product/:id
SellerKinds ==
    {"sellerGetProfile", "sellerProfile", "addProduct", "myProducts", "updateProduct"}

\* C22: on the protected seller routes an authenticated caller whose role is
\* not seller is rejected (403).
C22_SellerRoutesSellerOnly ==
    \A r \in ReqIds :
        (/\ reqs[r].kind \in SellerKinds /\ reqs[r].pc = "done"
         /\ reqs[r].user \in DOMAIN reqs[r].pre.users
         /\ reqs[r].pre.users[reqs[r].user].role # "seller")
        => reqs[r].res = 403

---------------------------------------------------------------------------
(* The admin's status route.  Under Spec the calls do not overlap. *)

\* request r is a finished status call of an account that was admin when
\* the call arrived
DoneSetStatus(r) ==
    /\ reqs[r].kind = "setStatus" /\ reqs[r].pc = "done"
    /\ reqs[r].user \in DOMAIN reqs[r].pre.users
    /\ reqs[r].pre.users[reqs[r].user].role = "admin"

\* C23: an admin's setStatus with one of the five statuses on an existing
\* order answers 200 and leaves the ledger as it was but for that order's
\* status, which is the value sent, whatever it was before; the catalog is
\* unchanged, also when the value is cancelled.  A value outside the five
\* answers 400 and a missing order 404, both with nothing changed.
C23_SetStatusOverwritesOnly ==
    \A r \in ReqIds :
        DoneSetStatus(r) =>
            IF reqs[r].body \notin Statuses
              THEN reqs[r].res = 400 /\ StoresUntouched(r)
            ELSE IF reqs[r].id \notin DOMAIN reqs[r].pre.orders
              THEN reqs[r].res = 404 /\ StoresUntouched(r)
            ELSE /\ reqs[r].res = 200
                 /\ orders = [reqs[r].pre.orders EXCEPT
                                ![reqs[r].id].status = reqs[r].body]
                 /\ products = reqs[r].pre.products
                 /\ users = reqs[r].pre.users

\* an order that had left pending was set to cancelled, and the stock it
\* took is still taken
C23_Witness ==
    \E r \in ReqIds :
        /\ DoneSetStatus(r) /\ reqs[r].res = 200
        /\ reqs[r].body = "cancelled"
        /\ reqs[r].pre.orders[reqs[r].id].status \notin {"pending", "cancelled"}
        /\ orders[reqs[r].id].status = "cancelled"
        /\ \E p \in DOMAIN products : products[p].quantity < hist.created[p]

---------------------------------------------------------------------------
(* The lines of a cart, in order.  Under Spec the calls do not overlap. *)

\* line k names no product of the catalog as the call found it
LineMissing(r, k) == Cart(r)[k].productId \notin DOMAIN reqs[r].pre.products

\* line k cannot be served: its product is missing, or what the call found of
\* it, less what lines 1..k-1 ask of it, is less than the line asks
LineFails(r, k) ==
    \/ LineMissing(r, k)
    \/ LET p == Cart(r)[k].productId IN
       reqs[r].pre.products[p].quantity - Requested(Cart(r), p, k - 1)
            < Cart(r)[k].quantity

\* line k is the first line of the cart that cannot be served
FirstFailing(r, k) ==
    /\ LineFails(r, k)
    /\ \A j \in 1..(k - 1) : ~LineFails(r, j)

\* C24: a /buy call whose first line that cannot be served is line k answers
\* for that line: 404 naming the product id if the product is missing,
\* otherwise 400 naming the product; the stock is down by what lines 1..k-1
\* ask and by nothing of line k or of the lines after it, and no order is
\* created.
C24_StopsAtFirstFailingLine ==
    \A r \in ReqIds : \A k \in 1..MaxLines + 1 :
        (DoneBuy(r) /\ k <= Len(Cart(r)) /\ FirstFailing(r, k)) =>
            LET p == Cart(r)[k].productId IN
            /\ reqs[r].i = k
            /\ IF LineMissing(r, k)
                 THEN /\ reqs[r].res = 404
                      /\ reqs[r].message = "Product not found: " \o p
                 ELSE /\ reqs[r].res = 400
                      /\ reqs[r].message =
                            "Insufficient stock for " \o reqs[r].pre.products[p].name
            /\ orders = reqs[r].pre.orders
            /\ \A q \in DOMAIN reqs[r].pre.products :
                    /\ q \in DOMAIN products
                    /\ products[q].quantity =
                        reqs[r].pre.products[q].quantity - Requested(Cart(r), q, k - 1)

\* a call failed on its first line and its second line, which the stock
\* could serve, took nothing
C24_Witness ==
    \E r \in ReqIds :
        /\ DoneBuy(r) /\ Len(Cart(r)) = 2
        /\ FirstFailing(r, 1) /\ ~LineMissing(r, 1)
        /\ reqs[r].res = 400
        /\ Cart(r)[2].productId \in DOMAIN products
        /\ Cart(r)[2].productId # Cart(r)[1].productId
        /\ Cart(r)[2].quantity <= products[Cart(r)[2].productId].quantity
        /\ products = reqs[r].pre.products

---------------------------------------------------------------------------
(* Cancelling after a product was deleted.  Under Spec the calls do not     *)
(* overlap.                                                                *)

\* the products of the order's lines that the catalog no longer holds
GoneProducts(r) ==
    {reqs[r].pre.orders[reqs[r].id].products[k].productId :
        k \in 1..Len(reqs[r].pre.orders[reqs[r].id].products)}
    \ DOMAIN reqs[r].pre.products

\* C25: the owner's cancel of a pending order with a line whose product has
\* been deleted answers 200 and sets the status to cancelled; the products
\* still in the catalog get the quantities of their lines back, and the
\* catalog holds the same products as before, the deleted one not among
\* them.
C25_CancelAfterProductDeleted ==
    \A r \in ReqIds :
        (/\ DoneCancel(r) /\ OwnOrder(r) /\ FoundStatus(r) = "pending"
         /\ GoneProducts(r) # {})
        => /\ reqs[r].res = 200
           /\ orders[reqs[r].id].status = "cancelled"
           /\ DOMAIN products = DOMAIN reqs[r].pre.products
           /\ \A p \in DOMAIN products :
                products[p].quantity =
                    reqs[r].pre.products[p].quantity
                    + RequestedAll(orders[reqs[r].id].products, p)

\* an order of two products was cancelled after one of them was deleted: the
\* other got its units back
C25_Witness ==
    \E r \in ReqIds :
        /\ DoneCancel(r) /\ OwnOrder(r) /\ reqs[r].res = 200
        /\ GoneProducts(r) # {}
        /\ \E p \in DOMAIN products :
                products[p].quantity > reqs[r].pre.products[p].quantity

---------------------------------------------------------------------------
(* Restoring stock, calls overlapping *)

\* C26: over the life of an order, the units added back to a product on
\* account of the order never exceed the quantity of the order's lines of
\* that product, however cancel calls and admin status calls interleave.
C26_RestoredAtMostOnce ==
    \A o \in DOMAIN orders : \A p \in AnyProductId :
        hist.restored[o][p] <= RequestedAll(orders[o].products, p)

---------------------------------------------------------------------------
(* Stock conservation *)

RECURSIVE HeldUpTo(_, _)
\* the quantity of product p in those of orders 1..n that are not cancelled
HeldUpTo(n, p) ==
    IF n = 0 THEN 0
    ELSE HeldUpTo(n - 1, p)
         + (IF orders[n].status # "cancelled"
              THEN RequestedAll(orders[n].products, p) ELSE 0)

\* the quantity of product p in all the orders that are not cancelled
Held(p) == HeldUpTo(Cardinality(DOMAIN orders), p)

\* C27: with /buy and /cancel calls only, whenever no request is in flight,
\* each product's quantity-on-hand plus the quantities of its lines in the
\* orders that are not cancelled is the quantity the product was created
\* with.
C27_StockConserved ==
    (\A r \in ReqIds : ~InFlight(r)) =>
        \A p \in DOMAIN products :
            products[p].quantity + Held(p) = hist.created[p]

---------------------------------------------------------------------------
(* Tokens issued before a role change.  Under SpecRoles the calls do not    *)
(* overlap.                                                                *)

\* the routes guarded by isAdmin or isAdminOrSeller, role assignment included
RoleGuardedKinds == GuardedKinds \cup {"setRole"}

\* C28: a guarded route decides by the role the account has in the store
\* when the request arrives, whatever role its token was issued with: it
\* answers 403 exactly when the stored role is not one the guard admits.
C28_StoredRoleDecides ==
    \A r \in ReqIds :
        (/\ reqs[r].pc = "done" /\ reqs[r].kind \in RoleGuardedKinds
         /\ reqs[r].user \in DOMAIN reqs[r].pre.users)
        => (reqs[r].res = 403
            <=> reqs[r].pre.users[reqs[r].user].role \notin AllowedRoles(reqs[r].kind))

\* a user was made admin after its token was issued and the first admin was
\* demoted: the token issued to that account as an admin is refused on an
\* admin route
C28_Witness ==
    \E r \in ReqIds :
        /\ reqs[r].pc = "done" /\ reqs[r].kind \in {"setRole", "setStatus", "deleteProduct"}
        /\ reqs[r].user = "a1" /\ TokenRole("a1") = "admin"
        /\ reqs[r].res = 403
        /\ users["u1"].role = "admin" /\ TokenRole("u1") = "user"

---------------------------------------------------------------------------
(* Quantities of either sign.  Under SpecSigned the calls do not overlap. *)

\* C29: after a /buy call, successful or failed, whatever the sign of the
\* quantities it asks, no product's quantity-on-hand is above what it was
\* before the call.
C29_BuyNeverRaisesStock ==
    \A r \in ReqIds :
        (reqs[r].kind = "buy" /\ reqs[r].pc = "done") =>
            \A p \in DOMAIN products \cap DOMAIN reqs[r].pre.products :
                products[p].quantity <= reqs[r].pre.products[p].quantity

---------------------------------------------------------------------------
(* Admin rights.  Under SpecOutsider no caller holds the token of the admin *)
(* registered at the start.                                                *)

\* the routes whose effect is reserved to an admin
AdminOnlyKinds == {"deleteUser", "setRole", "setStatus", "deleteProduct",
                   "adminUpdateProduct"}

\* C30: callers who hold no token of an existing admin get no admin-only
\* route to act, and the only accounts with role admin are those that had it
\* at the start: no product and no account is deleted, no role is changed.
C30_NoAdminWithoutAdmin ==
    /\ \A u \in DOMAIN users :
            users[u].role = "admin" => u \in UserIds /\ TokenRole(u) = "admin"
    /\ \A r \in ReqIds :
            (reqs[r].kind \in AdminOnlyKinds /\ reqs[r].pc = "done")
            => reqs[r].res \in {401, 403}
    /\ DOMAIN products = ProductIds
    /\ \A u \in UserIds : u \in DOMAIN users /\ users[u].role = TokenRole(u)

===========================================================================
